---- MODULE Spec2Model ----
(***************************************************************************)
(* Model of the event dispatcher of mageai-monitoring: decode_message,     *)
(* HandlerDispatcher.dispatch (the accumulating dispatcher) and the        *)
(* required-variable extraction of the concrete handlers.                  *)
(***************************************************************************)
EXTENDS Integers, Sequences, FiniteSets, TLC

\* ---------------------------------------------------------------- bounds
\* Longest list of registered handlers.
MaxHandlers == 2
\* Timestamps (source_timestamp of the event, wall clock of the dispatch) are 1..MaxTime.
MaxTime == 2

VARIABLES
    handlers,          \* self.handlers: the registered handlers, in registration order
    cloud_event,       \* the inbound CloudEvent (its data container)
    query_engine,      \* behaviour of the BigQuery client during this dispatch
    pc,                \* position of dispatch: start, match, execute, emit_matcher, emit_handler, respond, done, raised
    timestamp,         \* local `timestamp` of dispatch (wall clock read at entry)
    decoded_message,   \* local `decoded_message`
    idx,               \* position of the running for-loop
    matcher_errors,    \* local list of (handler_class, error)
    matched_handlers,  \* local list of matched handlers (indices into handlers)
    handler_errors,    \* local list of (handler_class, error, error_type)
    sink,              \* points the metrics sink accepted (create_time_series returned)
    calls,             \* log of the match / handle / create_time_series invocations
    queried,           \* table references handed to the BigQuery client
    response,          \* the Response dispatch returned
    escaped,           \* the exception that left dispatch, "" when none
    parked             \* the locals of a second dispatch call that is not running now

vars == <<handlers, cloud_event, query_engine, pc, timestamp, decoded_message, idx,
          matcher_errors, matched_handlers, handler_errors, sink, calls, queried, response,
          escaped, parked>>

\* ----------------------------------------------------------- text values
\* An f-string with one interpolated key: pre + key + post.  A plain text has no key.
Text(s) == [pre |-> s, key |-> "", post |-> ""]
Fmt(pre, key, post) == [pre |-> pre, key |-> key, post |-> post]

NoText == Text("")
InvalidFormatBody == Text("Bad Request: Invalid message format")
InternalServerErrorBody == Text("Internal Server Error")
EmptyBody == Text("")

\* --------------------------------------------------------------- messages
\* Keys of payload.variables the handlers read.  A key of the form a/b is key b of
\* the mapping stored under key a.
VarKeys == {
    "partner", "submission_run_id",
    "unprocessable_claims_input_table", "processable_claims_input_table",
    "refined_unprocessable_claims_output_table", "refined_processable_claims_output_table",
    "refined_processable_claims_historical_table", "refined_unprocessable_claims_historical_table",
    "processable_claims_output_table", "unprocessable_claims_output_table",
    "excluded_savings_output_table", "savings_input_table", "savings_output_table",
    "selected_savings_input_table", "selected_savings_historical_table",
    "processable_claims_historical_table", "unprocessable_claims_historical_table",
    "internal_validation_output_table", "manual_validation_output_table",
    "claims_submitted_output_table",
    "internal_validation", "manual_validation",
    "internal_validation/internal_validation_claims_input_table",
    "manual_validation/manual_validation_claims_input_table" }

\* State of one key of a mapping: absent, present with a falsy value (None, ""),
\* or present with a truthy value.
KeyStates == {"absent", "falsy", "set"}

AllSet == [k \in VarKeys |-> "set"]

\* A JSON value as the handlers see it.  kind: dict, scalar (a number, string or
\* list) or null.  For a dict: the presence and shape of its entries.
\* source_timestamp 0 stands for a text that is no ISO-8601 timestamp.
\* table_form: how the table variables of the payload write their reference.
Message(kind, has_payload, payload_kind, uuid, status, variables_kind, variables, has_ts, ts) ==
    [ kind |-> kind, has_payload |-> has_payload, payload_kind |-> payload_kind,
      pipeline_uuid |-> uuid, status |-> status,
      variables_kind |-> variables_kind, variables |-> variables,
      has_source_timestamp |-> has_ts, source_timestamp |-> ts,
      table_form |-> "project.dataset.table" ]

\* The message with its table variables written in form f.
WithTableForm(m, f) == [m EXCEPT !.table_form = f]

PipelineMessage(uuid, status, variables, ts) ==
    Message("dict", TRUE, "mapping", uuid, status, "mapping", variables, TRUE, ts)

NullValue == Message("null", FALSE, "mapping", "", "", "absent", AllSet, FALSE, 0)
ScalarValue == Message("scalar", FALSE, "mapping", "", "", "absent", AllSet, FALSE, 0)

\* ---------------------------------------------------------- text encodings
\* What base64, UTF-8 and json do to a message, character by character.  A text
\* is a sequence of code points, a bytes object a sequence of numbers 0..255.
\*
\* A JSON value: t is null, bool, int, str (s: its code points), arr (items: its
\* elements) or obj (items: its entries [k, v] in insertion order, k the code
\* points of the key).
JNull == [t |-> "null"]
JBool(b) == [t |-> "bool", b |-> b]
JInt(n) == [t |-> "int", n |-> n]
JStr(s) == [t |-> "str", s |-> s]
JArr(items) == [t |-> "arr", items |-> items]
JObj(items) == [t |-> "obj", items |-> items]

\* Result of a conversion: a value, or the failure the library raises.
Converted(v) == [ok |-> TRUE, v |-> v]
Malformed == [ok |-> FALSE, v |-> << >>]

\* The one element of S.  TheOnly({ e : v \in {x} }) is e with v standing for
\* the value of x, which is computed once however often e uses it.
TheOnly(S) == CHOOSE r \in S : TRUE

\* The texts of ss one after another.
RECURSIVE Flatten(_)
Flatten(ss) ==
    TheOnly({ IF Len(v) = 0 THEN << >>
              ELSE IF Len(v) = 1 THEN v[1]
              ELSE Flatten(SubSeq(v, 1, Len(v) \div 2))
                   \o Flatten(SubSeq(v, Len(v) \div 2 + 1, Len(v))) : v \in {ss} })

\* s[i], or -1 past the end.
At(s, i) == IF i \in 1..Len(s) THEN s[i] ELSE 0 - 1

\* base64.b64encode: three bytes become four characters of the alphabet
\* A-Z a-z 0-9 + /, a shorter last group is padded with "=".
B64Char(n) ==
    IF n < 26 THEN 65 + n ELSE IF n < 52 THEN 71 + n ELSE IF n < 62 THEN n - 4
    ELSE IF n = 62 THEN 43 ELSE 47
b64encode(bytes) ==
    TheOnly({ Flatten([g \in 1..((Len(v) + 2) \div 3) |->
        LET b1 == v[3 * g - 2]
            b2 == At(v, 3 * g - 1)
            b3 == At(v, 3 * g)
        IN  << B64Char(b1 \div 4),
               B64Char((b1 % 4) * 16 + (IF b2 < 0 THEN 0 ELSE b2 \div 16)),
               IF b2 < 0 THEN 61 ELSE B64Char((b2 % 16) * 4 + (IF b3 < 0 THEN 0 ELSE b3 \div 64)),
               IF b3 < 0 THEN 61 ELSE B64Char(b3 % 64) >>]) : v \in {bytes} })

\* base64.b64decode(s) with validate=False: characters outside the alphabet are
\* discarded, the characters up to the padding are read six bits each, and a
\* last group that is not padded to four characters raises binascii.Error.
B64Value(c) ==
    IF c \in 65..90 THEN c - 65 ELSE IF c \in 97..122 THEN c - 71
    ELSE IF c \in 48..57 THEN c + 4 ELSE IF c = 43 THEN 62 ELSE IF c = 47 THEN 63
    ELSE 0 - 1
\* The bytes that the six-bit values v spell, four values to three bytes; a
\* last group of two or three values gives one or two bytes.
Sextets(values) ==
    TheOnly({ Flatten([g \in 1..((Len(v) + 3) \div 4) |->
        LET v1 == v[4 * g - 3]
            v2 == At(v, 4 * g - 2)
            v3 == At(v, 4 * g - 1)
            v4 == At(v, 4 * g)
        IN  (IF v2 < 0 THEN << >> ELSE << v1 * 4 + v2 \div 16 >>)
            \o (IF v3 < 0 THEN << >> ELSE << (v2 % 16) * 16 + v3 \div 4 >>)
            \o (IF v4 < 0 THEN << >> ELSE << (v3 % 4) * 64 + v4 >>)]) : v \in {values} })

\* The characters kept, of which the first n come before the padding.
B64Bytes(kept, n) ==
    LET pads == Cardinality({ k \in (n + 1)..Len(kept) : k <= n + 2 /\ kept[k] = 61 })
    IN  IF n % 4 = 1 THEN Malformed
        ELSE IF n % 4 = 2 /\ pads < 2 THEN Malformed
        ELSE IF n % 4 = 3 /\ pads < 1 THEN Malformed
        ELSE Converted(Sextets([k \in 1..n |-> B64Value(kept[k])]))
b64decode(s) ==
    TheOnly({ B64Bytes(kept, Cardinality({ k \in 1..Len(kept) :
                                             \A l \in 1..k : kept[l] # 61 }))
              : kept \in {SelectSeq(s, LAMBDA c : B64Value(c) >= 0 \/ c = 61)} })

\* str.encode("utf-8"): one to four bytes per code point.
utf8_encode(text) ==
    TheOnly({ Flatten([k \in 1..Len(t) |->
        LET c == t[k]
        IN  IF c < 128 THEN << c >>
            ELSE IF c < 2048 THEN << 192 + c \div 64, 128 + (c % 64) >>
            ELSE IF c < 65536
              THEN << 224 + c \div 4096, 128 + ((c \div 64) % 64), 128 + (c % 64) >>
            ELSE << 240 + c \div 262144, 128 + ((c \div 4096) % 64),
                    128 + ((c \div 64) % 64), 128 + (c % 64) >>]) : t \in {text} })

\* bytes.decode("utf-8"), strict: a lead byte announces the length of its
\* character, every other byte of the character is a continuation byte 10xxxxxx;
\* a stray or missing continuation byte, an overlong form, a surrogate and a
\* code point above U+10FFFF raise UnicodeDecodeError.
Continuation(bytes, i) == At(bytes, i) \in 128..191
Utf8Length(b) ==
    IF b < 128 THEN 1 ELSE IF b \in 194..223 THEN 2 ELSE IF b \in 224..239 THEN 3
    ELSE IF b \in 240..244 THEN 4 ELSE 0
Utf8CodePoint(bytes, i) ==
    LET b == bytes[i]
        n == Utf8Length(b)
        lead == IF n = 1 THEN b ELSE IF n = 2 THEN b % 32 ELSE IF n = 3 THEN b % 16 ELSE b % 8
        c2 == lead * 64 + (At(bytes, i + 1) % 64)
        c3 == c2 * 64 + (At(bytes, i + 2) % 64)
        c4 == c3 * 64 + (At(bytes, i + 3) % 64)
    IN  IF n = 1 THEN b ELSE IF n = 2 THEN c2 ELSE IF n = 3 THEN c3 ELSE c4
Utf8WellFormed(bytes, i) ==
    LET n == Utf8Length(bytes[i])
        c == Utf8CodePoint(bytes, i)
    IN  /\ n > 0
        /\ \A k \in 1..(n - 1) : Continuation(bytes, i + k)
        /\ ~Continuation(bytes, i + n)
        /\ n = 3 => c >= 2048 /\ c \notin 55296..57343
        /\ n = 4 => c \in 65536..1114111
\* The characters that begin at the positions `starts` of b.
Utf8Characters(b, starts) ==
    IF Continuation(b, 1) \/ \E k \in 1..Len(starts) : ~Utf8WellFormed(b, starts[k])
      THEN Malformed
      ELSE Converted([k \in 1..Len(starts) |-> Utf8CodePoint(b, starts[k])])
latin1_decode(bytes) == Converted(bytes)
utf8_decode(bytes) ==
    TheOnly({ TheOnly({ Utf8Characters(b, starts)
                        : starts \in {SelectSeq([i \in 1..Len(b) |-> i],
                                                LAMBDA i : ~Continuation(b, i))} })
              : b \in {bytes} })

\* json.dumps(value, ensure_ascii=ascii) with the default separators ", " and
\* ": ".  Quote, backslash and control characters are escaped; with ensure_ascii
\* every character outside space..~ is written \uXXXX, one above U+FFFF as a
\* surrogate pair.
HexDigit(n) == IF n < 10 THEN 48 + n ELSE 87 + n
UEscape(c) ==
    << 92, 117, HexDigit(c \div 4096), HexDigit((c \div 256) % 16),
       HexDigit((c \div 16) % 16), HexDigit(c % 16) >>
EscapeChar(c, ascii) ==
    IF c = 34 THEN << 92, 34 >>
    ELSE IF c = 92 THEN << 92, 92 >>
    ELSE IF c = 10 THEN << 92, 110 >>
    ELSE IF c = 13 THEN << 92, 114 >>
    ELSE IF c = 9 THEN << 92, 116 >>
    ELSE IF c = 8 THEN << 92, 98 >>
    ELSE IF c = 12 THEN << 92, 102 >>
    ELSE IF c < 32 THEN UEscape(c)
    ELSE IF c <= 126 \/ ~ascii THEN << c >>
    ELSE IF c < 65536 THEN UEscape(c)
    ELSE UEscape(55296 + (c - 65536) \div 1024) \o UEscape(56320 + ((c - 65536) % 1024))
RECURSIVE Digits(_)
Digits(n) == IF n < 10 THEN << 48 + n >> ELSE Digits(n \div 10) \o << 48 + (n % 10) >>
Quoted(s, ascii) == << 34 >> \o Flatten([k \in 1..Len(s) |-> EscapeChar(s[k], ascii)]) \o << 34 >>
Joined(ss) ==
    TheOnly({ Flatten([k \in 1..Len(v) |-> IF k = 1 THEN v[k] ELSE << 44, 32 >> \o v[k]])
              : v \in {ss} })
RECURSIVE dumps(_, _)
dumps(j, ascii) ==
    CASE j.t = "null" -> << 110, 117, 108, 108 >>
      [] j.t = "bool" -> IF j.b THEN << 116, 114, 117, 101 >> ELSE << 102, 97, 108, 115, 101 >>
      [] j.t = "int" -> IF j.n < 0 THEN << 45 >> \o Digits(0 - j.n) ELSE Digits(j.n)
      [] j.t = "str" -> Quoted(j.s, ascii)
      [] j.t = "arr" ->
           << 91 >> \o Joined([k \in 1..Len(j.items) |-> dumps(j.items[k], ascii)]) \o << 93 >>
      [] OTHER ->
           << 123 >>
           \o Joined([k \in 1..Len(j.items) |->
                        Quoted(j.items[k].k, ascii) \o << 58, 32 >> \o dumps(j.items[k].v, ascii)])
           \o << 125 >>

\* json.loads(text).  A parse gives the value read and the position after it.
\* Numbers are integers: no message of the model holds a fraction.
Parsed(v, i) == [ok |-> TRUE, v |-> v, i |-> i]
NoParse == [ok |-> FALSE, v |-> JNull, i |-> 0]

RECURSIVE SkipWhitespace(_, _)
SkipWhitespace(s, i) == IF At(s, i) \in {32, 9, 10, 13} THEN SkipWhitespace(s, i + 1) ELSE i

HexValue(c) ==
    IF c \in 48..57 THEN c - 48 ELSE IF c \in 97..102 THEN c - 87
    ELSE IF c \in 65..70 THEN c - 55 ELSE 0 - 1
IsHex4(s, i) == \A k \in 0..3 : HexValue(At(s, i + k)) >= 0
Hex4(s, i) ==
    ((HexValue(s[i]) * 16 + HexValue(s[i + 1])) * 16 + HexValue(s[i + 2])) * 16
    + HexValue(s[i + 3])

\* The character a one-letter escape stands for, -1 for no escape.
Unescaped(e) ==
    IF e \in {34, 92, 47} THEN e
    ELSE IF e = 98 THEN 8 ELSE IF e = 102 THEN 12 ELSE IF e = 110 THEN 10
    ELSE IF e = 114 THEN 13 ELSE IF e = 116 THEN 9 ELSE 0 - 1

\* The character at k follows an odd number of backslashes: it is the letter
\* of an escape.  The string began at i.
Escaped(s, i, k) ==
    Cardinality({ m \in 1..(k - i) : \A l \in 1..m : s[k - l] = 92 }) % 2 = 1

\* A \uXXXX escape begins at k; the value it writes.
IsUEscape(s, k) == At(s, k) = 92 /\ At(s, k + 1) = 117 /\ IsHex4(s, k + 2)
UValue(s, k) == IF IsUEscape(s, k) THEN Hex4(s, k + 2) ELSE 0 - 1

\* The string that began at i and ends with the quote at q.  A character or an
\* escape begins at every position that is neither the letter of an escape nor
\* one of the four digits of a \uXXXX; a high surrogate followed by a low one is
\* one character.
StringBegins(s, i, q, k) ==
    /\ k \in i..(q - 1)
    /\ ~Escaped(s, i, k)
    /\ \A d \in 1..4 : ~(k - d > i /\ s[k - d] = 117 /\ Escaped(s, i, k - d))
StringValid(s, q, k) ==
    IF s[k] # 92 THEN s[k] >= 32
    ELSE Unescaped(s[k + 1]) >= 0 \/ (IsUEscape(s, k) /\ k + 5 < q)
StringWritten(s, i, q, k) ==
    LET High(n) == StringBegins(s, i, q, n) /\ UValue(s, n) \in 55296..56319
        Low(n) == StringBegins(s, i, q, n) /\ UValue(s, n) \in 56320..57343
    IN  IF s[k] # 92 THEN << s[k] >>
        ELSE IF Unescaped(s[k + 1]) >= 0 THEN << Unescaped(s[k + 1]) >>
        ELSE IF High(k) /\ Low(k + 6)
          THEN << 65536 + (UValue(s, k) - 55296) * 1024 + (UValue(s, k + 6) - 56320) >>
        ELSE IF Low(k) /\ High(k - 6) THEN << >>
        ELSE << UValue(s, k) >>
StringBetween(s, i, q, begins) ==
    IF \E n \in 1..Len(begins) : ~StringValid(s, q, begins[n]) THEN NoParse
    ELSE Parsed(Flatten([n \in 1..Len(begins) |-> StringWritten(s, i, q, begins[n])]), q + 1)

\* The rest of a string whose opening quote has been read: up to the first
\* quote that is not escaped.
ParseStringFrom(s, i, quotes) ==
    IF quotes = {} THEN NoParse
    ELSE TheOnly({ TheOnly({ StringBetween(s, i, q, begins)
                             : begins \in {SelectSeq([k \in 1..Len(s) |-> k],
                                                     LAMBDA k : StringBegins(s, i, q, k))} })
                   : q \in {CHOOSE k \in quotes : \A l \in quotes : k <= l} })
ParseString(s, start) ==
    TheOnly({ TheOnly({ ParseStringFrom(s, i, quotes)
                        : quotes \in {{ k \in i..Len(s) : s[k] = 34 /\ ~Escaped(s, i, k) }} })
              : i \in {start} })

RECURSIVE ParseDigits(_, _, _)
ParseDigits(s, i, n) ==
    IF At(s, i) \in 48..57 THEN ParseDigits(s, i + 1, 10 * n + (s[i] - 48)) ELSE Parsed(n, i)
ParseNatural(s, i) ==
    IF At(s, i) = 48 THEN Parsed(0, i + 1)
    ELSE IF At(s, i) \in 49..57 THEN ParseDigits(s, i, 0)
    ELSE NoParse

IsLiteral(s, i, word) == i + Len(word) - 1 <= Len(s) /\ SubSeq(s, i, i + Len(word) - 1) = word

\* dict[key] = value: a key already present keeps its place.
Put(items, k, v) ==
    IF \E n \in 1..Len(items) : items[n].k = k
      THEN [n \in 1..Len(items) |-> IF items[n].k = k THEN [k |-> k, v |-> v] ELSE items[n]]
      ELSE Append(items, [k |-> k, v |-> v])

RECURSIVE ParseValue(_, _)
RECURSIVE ParseMembers(_, _, _)
RECURSIVE ParseElements(_, _, _)

\* The entries of an object from the key at position i on.
ParseMembers(s, i, acc) ==
    IF At(s, i) # 34 THEN NoParse
    ELSE TheOnly({
           IF ~key.ok \/ At(s, SkipWhitespace(s, key.i)) # 58 THEN NoParse
           ELSE TheOnly({
                  IF ~val.ok THEN NoParse
                  ELSE TheOnly({
                         IF At(s, next) = 125 THEN Parsed(JObj(items), next + 1)
                         ELSE IF At(s, next) = 44
                           THEN ParseMembers(s, SkipWhitespace(s, next + 1), items)
                         ELSE NoParse
                         : next \in {SkipWhitespace(s, val.i)},
                           items \in {Put(acc, key.v, val.v)} })
                  : val \in {ParseValue(s, SkipWhitespace(s, SkipWhitespace(s, key.i) + 1))} })
           : key \in {ParseString(s, i + 1)} })

\* The elements of an array from the value at position i on.
ParseElements(s, i, acc) ==
    TheOnly({
      IF ~val.ok THEN NoParse
      ELSE TheOnly({
             IF At(s, next) = 93 THEN Parsed(JArr(Append(acc, val.v)), next + 1)
             ELSE IF At(s, next) = 44
               THEN ParseElements(s, SkipWhitespace(s, next + 1), Append(acc, val.v))
             ELSE NoParse
             : next \in {SkipWhitespace(s, val.i)} })
      : val \in {ParseValue(s, i)} })

\* The value that begins at position i, which begins with character c.
ParseValueAt(s, i, c) ==
    IF c = 34
      THEN TheOnly({ IF r.ok THEN Parsed(JStr(r.v), r.i) ELSE NoParse
                     : r \in {ParseString(s, i + 1)} })
    ELSE IF c = 123
      THEN TheOnly({ IF At(s, j) = 125 THEN Parsed(JObj(<< >>), j + 1)
                     ELSE ParseMembers(s, j, << >>)
                     : j \in {SkipWhitespace(s, i + 1)} })
    ELSE IF c = 91
      THEN TheOnly({ IF At(s, j) = 93 THEN Parsed(JArr(<< >>), j + 1)
                     ELSE ParseElements(s, j, << >>)
                     : j \in {SkipWhitespace(s, i + 1)} })
    ELSE IF IsLiteral(s, i, << 110, 117, 108, 108 >>) THEN Parsed(JNull, i + 4)
    ELSE IF IsLiteral(s, i, << 116, 114, 117, 101 >>) THEN Parsed(JBool(TRUE), i + 4)
    ELSE IF IsLiteral(s, i, << 102, 97, 108, 115, 101 >>) THEN Parsed(JBool(FALSE), i + 5)
    ELSE IF c = 45
      THEN TheOnly({ IF r.ok THEN Parsed(JInt(0 - r.v), r.i) ELSE NoParse
                     : r \in {ParseNatural(s, i + 1)} })
    ELSE TheOnly({ IF r.ok THEN Parsed(JInt(r.v), r.i) ELSE NoParse
                   : r \in {ParseNatural(s, i)} })
ParseValue(s, start) == TheOnly({ ParseValueAt(s, i, At(s, i)) : i \in {start} })

\* json.loads: one value with nothing but whitespace around it, else
\* JSONDecodeError.
loads(text) ==
    TheOnly({ IF r.ok /\ SkipWhitespace(text, r.i) = Len(text) + 1
                THEN Converted(r.v) ELSE Malformed
              : r \in {ParseValue(text, SkipWhitespace(text, 1))} })

\* ---------------------------------------------------------- decode_message
\* Outcome of a call: a returned value, the value None, or a raised exception.
Value(v) == [kind |-> "value", value |-> v, exc |-> ""]
None == [kind |-> "none", value |-> NullValue, exc |-> ""]
Raise(e) == [kind |-> "raise", value |-> NullValue, exc |-> e]

\* Exception classes that are ValueError or a subclass of it (binascii.Error,
\* UnicodeDecodeError and json.JSONDecodeError all are).
ValueErrors == {"ValueError", "binascii.Error", "UnicodeDecodeError", "JSONDecodeError"}

\* The data container of a CloudEvent.
\*   data_kind     none: cloud_event.data is None; mapping: a dict
\*   message_kind  the "message" entry: absent, a mapping, null, or a string
\*   enc           the "data" entry of the message: absent, empty (a falsy value),
\*                 str (a text), int (a truthy value that is neither text nor bytes),
\*                 text (a text given character by character in `data`)
\*   b64ok, utf8ok, jsonok   whether the text is valid base64, the bytes valid
\*                 UTF-8, the decoded text valid JSON
\*   body          envelope form: the JSON value the text encodes;
\*                 direct form: the data container itself, seen as a message
Event(data_kind, message_kind, enc, b64ok, utf8ok, jsonok, body) ==
    [ data_kind |-> data_kind, message_kind |-> message_kind, enc |-> enc,
      b64ok |-> b64ok, utf8ok |-> utf8ok, jsonok |-> jsonok, body |-> body,
      data |-> << >> ]

\* base64.b64decode(encoded_data).decode("utf-8") followed by json.loads.
b64_utf8_json(ev) ==
    IF ev.enc = "text"
      THEN TheOnly({
             IF ~bytes.ok THEN Raise("binascii.Error")
             ELSE TheOnly({
                    IF ~decoded.ok THEN Raise("UnicodeDecodeError")
                    ELSE TheOnly({
                           IF ~j.ok THEN Raise("JSONDecodeError")
                           ELSE IF j.v = JNull THEN None
                           ELSE Value(j.v)
                           : j \in {loads(decoded.v)} })
                    : decoded \in {utf8_decode(bytes.v)} })
             : bytes \in {b64decode(ev.data)} })
    ELSE IF ev.enc = "int" THEN Raise("TypeError")
    ELSE IF ~ev.b64ok THEN Raise("binascii.Error")
    ELSE IF ~ev.utf8ok THEN Raise("UnicodeDecodeError")
    ELSE IF ~ev.jsonok THEN Raise("JSONDecodeError")
    ELSE IF ev.body.kind = "null" THEN None
    ELSE Value(ev.body)

\* decode_message(cloud_event.data): the envelope form when message.data is truthy,
\* else the direct form when the container has payload and source_timestamp, else
\* None.  Only ValueError and its subclasses are caught.
decode_message(ev) ==
    IF ev.data_kind = "none" THEN Raise("AttributeError")
    ELSE IF ev.message_kind \in {"null", "str"} THEN Raise("AttributeError")
    ELSE IF ev.message_kind = "mapping" /\ (ev.enc \in {"str", "int"} \/ ev.data # << >>)
         THEN LET r == b64_utf8_json(ev)
              IN  IF r.kind = "raise" /\ r.exc \in ValueErrors THEN None ELSE r
    ELSE IF ev.body.has_payload /\ ev.body.has_source_timestamp THEN Value(ev.body)
    ELSE None

\* ------------------------------------------------------------ metric values
\* A metric value is a float.  The model keeps it as the exact fraction n/d in
\* lowest terms with d > 0, so that 1000/5000 and 1/5 are the same value.
RECURSIVE GCD(_, _)
GCD(a, b) == IF b = 0 THEN a ELSE GCD(b, a % b)
Abs(x) == IF x < 0 THEN -x ELSE x
Frac(n, d) ==
    LET g == GCD(Abs(n), Abs(d))
        s == IF d < 0 THEN -1 ELSE 1
    IN  [n |-> (s * n) \div g, d |-> Abs(d) \div g]

\* float(x) of a whole amount; `value or 0.0` has replaced a NULL by 0 before.
float(x) == Frac(x, 1)
Zero == float(0)
One == float(1)

\* a / b.  A division by zero yields no number (Python raises ZeroDivisionError,
\* SQL fails the query, IEEE arithmetic gives inf or NaN).
NotANumber == [n |-> 1, d |-> 0]
Div(a, b) == IF b = 0 THEN NotANumber ELSE Frac(a, b)

\* -------------------------------------------------------- table references
\* A table reference is the sequence of its dot-separated parts: <<t>>,
\* <<dataset, t>> or <<project, dataset, t>>.  The table named by the variable
\* `key` of the payload, written in the form the event uses.
DataProject == "data-project"
RefForms == {"table", "dataset.table", "project.dataset.table"}
TableRef(form, key) ==
    CASE form = "table" -> << key >>
      [] form = "dataset.table" -> << "dataset", key >>
      [] OTHER -> << "project", "dataset", key >>

\* ensure_full_table_ref: `"." in table` holds when the reference has two parts
\* or more.
ensure_full_table_ref(data_project_id, table) ==
    IF Len(table) > 1 THEN table ELSE << data_project_id >> \o table

\* ---------------------------------------------------------------- handlers
\* A metric point as emit_gauge_metric hands it to create_time_series.
\* labels is a set of <<key, value>> pairs.
Point(name, value, labels, ts) ==
    [name |-> name, value |-> value, labels |-> labels, timestamp |-> ts]

\* Result of handle: how it ended (ok,
\* bad_request: HandlerBadRequestError(message), internal: another exception with
\* text `text`), the points the sink accepted before it ended, in order, and
\* (queries) the table references it handed to the BigQuery client.
HandleResult(result, message, text, points) ==
    [result |-> result, message |-> message, text |-> text, points |-> points,
     queries |-> {}]

\* A test handler: match and handle do what its fields say.  cls is the class name.
\* A handler whose match and handle are "code" is the concrete handler of class cls.
Handler(cls, m, h, message, text) ==
    [cls |-> cls, match |-> m, handle |-> h, message |-> message, text |-> text]

\* source_timestamp of a decoded message as datetime.fromisoformat reads it.
SourceTimestamp(m) == m.source_timestamp

\* ------------------------------------------------------ concrete handlers
\* The texts of HandlerBadRequestError the handlers raise.
NoPayloadFound == Text("No 'payload' found in event data.")
NoVariable(k) == Fmt("No variable '", k, "' found in payload.")
NoKey(k) == Fmt("No '", k, "' found in payload.")
MissingRequired(k) == Fmt("Missing required '", k, "' variable in payload.")
BatchTablesNotFound == Fmt("Batch tables not found: ", "", "")

\* One step of a handle method, in the order the method takes them.
\*   payload_index  pl = decoded_message["payload"]
\*   payload_get    payload = decoded_message.get("payload"); 400 if not payload
\*   variables      variables = payload.get("variables", {})
\*   defensive      return unless payload is the COMPLETED event of pipeline uuid
\*   nested         variables.get(container, {}).get(...)
\*   require        400 with `message` if not variables.get(key); key is the key of
\*                  VarKeys read, lookup the key text handed to .get, container the
\*                  mapping it is read from ("" for payload.variables itself)
\*   timestamp      datetime.fromisoformat(decoded_message["source_timestamp"]...)
\*   query          get_table / query on the tables named by the variables `tables`;
\*                  on_missing says what NotFound leads to: propagate (it leaves
\*                  handle), bad_request, return (handle ends), default (a default
\*                  value is used and handle goes on)
\*   emit           emit_gauge_metric for each of `names`, once per row of the
\*                  result `compute` derives from the tables named by `args`;
\*                  on_missing says what the try block around the emission does
\*                  with a NotFound the sink raises: propagate, bad_request, return
Step(op, uuid, container, key, lookup, message, tables, on_missing, names, labels, compute, args) ==
    [ op |-> op, uuid |-> uuid, container |-> container, key |-> key, lookup |-> lookup,
      message |-> message, tables |-> tables, on_missing |-> on_missing,
      names |-> names, labels |-> labels, compute |-> compute, args |-> args ]

PayloadIndex == Step("payload_index", "", "", "", "", NoText, {}, "", << >>, {}, "", << >>)
PayloadGet == Step("payload_get", "", "", "", "", NoPayloadFound, {}, "", << >>, {}, "", << >>)
VariablesGet == Step("variables", "", "", "", "", NoText, {}, "", << >>, {}, "", << >>)
Defensive(uuid) == Step("defensive", uuid, "", "", "", NoText, {}, "", << >>, {}, "", << >>)
Nested(container) ==
    Step("nested", "", container, "", "", NoText, {}, "", << >>, {}, "", << >>)
Require(key, message) ==
    Step("require", "", "", key, key, message, {}, "", << >>, {}, "", << >>)
RequireNested(container, key, lookup, message) ==
    Step("require", "", container, key, lookup, message, {}, "", << >>, {}, "", << >>)
Timestamp == Step("timestamp", "", "", "", "", NoText, {}, "", << >>, {}, "", << >>)
Query(tables, on_missing) ==
    Step("query", "", "", "", "", NoText, tables, on_missing, << >>, {}, "", << >>)
Emit(names, labels, compute, args) ==
    Step("emit", "", "", "", "", NoText, {}, "propagate", names, labels, compute, args)
EmitPerRow(names, labels, compute, args, on_missing) ==
    Step("emit", "", "", "", "", NoText, {}, on_missing, names, labels, compute, args)

Partner == <<"partner", "porto">>

\* PreFilteredBaseHandler._handle_pre_filtered_metrics
PreFilteredSteps(uuid, unprocessable_table_var, processable_table_var, approved_value) ==
    << PayloadGet, VariablesGet, Defensive(uuid),
       Require(unprocessable_table_var, NoVariable(unprocessable_table_var)),
       Require(processable_table_var, NoVariable(processable_table_var)),
       Query({unprocessable_table_var, processable_table_var}, "propagate"),
       Require("partner", MissingRequired("partner")),
       Timestamp,
       Emit(<< "claims/pipeline/filtered_pre/vl_pago/total",
               "claims/pipeline/filtered_pre/vl_pago/relative" >>,
            {Partner, <<"approved", approved_value>>},
            "pre_filtered", << unprocessable_table_var, processable_table_var >>) >>

\* PreFilteredApprovalHandler.handle
PreFilteredApprovalSteps ==
    << PayloadIndex, VariablesGet, Defensive("pipesv2_approval"),
       Require("unprocessable_claims_input_table", NoVariable("unprocessable_claims_input_table")),
       Require("processable_claims_input_table", NoVariable("processable_claims_input_table")),
       Query({"unprocessable_claims_input_table", "processable_claims_input_table"}, "propagate"),
       Require("partner", MissingRequired("partner")),
       Timestamp,
       Emit(<< "claims/pipeline/filtered_pre/vl_pago/total",
               "claims/pipeline/filtered_pre/vl_pago/relative" >>,
            {Partner, <<"approved", "true">>},
            "pre_filtered_approval",
            << "unprocessable_claims_input_table", "processable_claims_input_table" >>) >>

\* ProcessableBaseHandler._handle_processable_metrics: the relative metric is
\* emitted only when the two sums are positive together.
ProcessableSteps(uuid, processable_table_var, unprocessable_table_var, approved_value) ==
    << PayloadGet, VariablesGet, Defensive(uuid),
       Require(processable_table_var, NoVariable(processable_table_var)),
       Require(unprocessable_table_var, NoVariable(unprocessable_table_var)),
       Query({processable_table_var}, "default"),
       Query({unprocessable_table_var}, "default"),
       Require("partner", MissingRequired("partner")),
       Timestamp,
       Emit(<< "claims/pipeline/processable/vl_pago/total" >>,
            {Partner, <<"approved", approved_value>>},
            "processable_total", << processable_table_var, unprocessable_table_var >>),
       Emit(<< "claims/pipeline/processable/vl_pago/relative" >>,
            {Partner, <<"approved", approved_value>>},
            "processable_relative", << processable_table_var, unprocessable_table_var >>) >>

\* PostFilteredBaseHandler._handle_post_filtered_metrics
PostFilteredSteps(uuid, excluded_table_var, savings_table_var, approved_value) ==
    << PayloadGet, VariablesGet, Defensive(uuid),
       Require(excluded_table_var, NoVariable(excluded_table_var)),
       Require(savings_table_var, NoVariable(savings_table_var)),
       Query({excluded_table_var}, "default"),
       Query({savings_table_var}, "propagate"),
       Require("partner", MissingRequired("partner")),
       Timestamp,
       Emit(<< "claims/pipeline/filtered_post/vl_glosa_arvo/total",
               "claims/pipeline/filtered_post/vl_glosa_arvo/relative" >>,
            {Partner, <<"approved", approved_value>>},
            "post_filtered", << excluded_table_var, savings_table_var >>) >>

\* SavingsBaseHandler._handle_savings_metrics: the emission loop runs inside the
\* try block whose `except NotFound` returns.
SavingsSteps(uuid, savings_table_var, approved_value) ==
    << PayloadGet, VariablesGet, Defensive(uuid),
       Require(savings_table_var, NoVariable(savings_table_var)),
       Require("partner", MissingRequired("partner")),
       Timestamp,
       Query({savings_table_var}, "return"),
       EmitPerRow(<< "claims/pipeline/savings/vl_glosa_arvo", "claims/pipeline/savings/count" >>,
            {Partner, <<"approved", approved_value>>},
            "savings", << savings_table_var >>, "return") >>

\* SelectedSavingsApprovalHandler.handle
SelectedSavingsApprovalSteps ==
    << PayloadGet, Defensive("pipesv2_approval"), VariablesGet,
       Require("selected_savings_input_table", NoVariable("selected_savings_input_table")),
       Require("partner", MissingRequired("partner")),
       Timestamp,
       Query({"selected_savings_input_table"}, "return"),
       EmitPerRow(<< "claims/glosa/approved/vl_glosa_arvo" >>,
            {Partner, <<"source", "selected_savings">>},
            "selected_savings", << "selected_savings_input_table" >>, "return") >>

\* The new-entity and volume-ratio base handlers (NewBeneficiariesBaseHandler,
\* NewProvidersBaseHandler, ProvidersVolumeRatioBaseHandler,
\* BeneficiariesVolumeRatioBaseHandler): the four table variables, the timestamp,
\* the partner, then the batch tables (400 when one is missing) and the
\* historical ones (a default when one is missing).  The emission runs inside the
\* try block whose `except NotFound` raises HandlerBadRequestError.
BatchHistoricalSteps(batch_p, batch_u, hist_p, hist_u, approved_value, name, compute) ==
    << PayloadGet, VariablesGet,
       Require(batch_p, NoVariable(batch_p)),
       Require(batch_u, NoVariable(batch_u)),
       Require(hist_p, NoVariable(hist_p)),
       Require(hist_u, NoVariable(hist_u)),
       Timestamp,
       Require("partner", MissingRequired("partner")),
       Query({batch_p, batch_u}, "bad_request"),
       Query({hist_p, hist_u}, "default"),
       EmitPerRow(<< name >>, {Partner, <<"approved", approved_value>>},
                  compute, << batch_p, batch_u, hist_p, hist_u >>, "bad_request") >>

\* UnsentClaimsHandler.handle
UnsentClaimsSteps ==
    << PayloadGet, VariablesGet,
       Require("processable_claims_historical_table", NoKey("processable_claims_historical_table")),
       Require("unprocessable_claims_historical_table", NoKey("unprocessable_claims_historical_table")),
       Require("internal_validation_output_table", NoKey("internal_validation_output_table")),
       Require("claims_submitted_output_table", NoKey("submitted_claims_output_table")),
       Require("partner", MissingRequired("partner")),
       Require("submission_run_id", MissingRequired("submission_run_id")),
       Timestamp,
       Query({"processable_claims_historical_table", "unprocessable_claims_historical_table",
              "internal_validation_output_table", "claims_submitted_output_table"}, "propagate"),
       Emit(<< "claims/pipeline/claims/vl_pago/sent_over_recv_last_2_days",
               "claims/pipeline/claims/vl_info/sent_over_recv_last_2_days" >>,
            {Partner}, "unsent_claims", << >>) >>

\* UnsentSavingsHandler.handle
UnsentSavingsSteps ==
    << PayloadGet, VariablesGet,
       Require("selected_savings_historical_table", NoKey("selected_savings_historical_table")),
       Require("internal_validation_output_table", NoKey("internal_validation_output_table")),
       Require("manual_validation_output_table", NoKey("manual_validation_output_table")),
       Require("claims_submitted_output_table", NoKey("claims_submitted_output_table")),
       Require("partner", MissingRequired("partner")),
       Require("submission_run_id", MissingRequired("submission_run_id")),
       Timestamp,
       Query({"claims_submitted_output_table"}, "propagate"),
       Query({"selected_savings_historical_table", "internal_validation_output_table",
              "manual_validation_output_table"}, "propagate"),
       Query({"claims_submitted_output_table"}, "propagate"),
       Emit(<< "claims/pipeline/savings/vl_glosa_arvo/sent_over_accepted_last_2_days" >>,
            {Partner}, "unsent_savings", << >>) >>

\* ExpiredValidationClaimsHandler.handle
ExpiredValidationClaimsSteps ==
    << PayloadGet, VariablesGet,
       Nested("internal_validation"), Nested("manual_validation"),
       Require("partner", MissingRequired("partner")),
       RequireNested("internal_validation",
                     "internal_validation/internal_validation_claims_input_table",
                     "internal_validation_claims_input_table",
                     NoKey("internal_validation_claims_input_table")),
       RequireNested("manual_validation",
                     "manual_validation/manual_validation_claims_input_table",
                     "manual_validation_claims_input_table",
                     NoKey("manual_validation_claims_input_table")),
       Timestamp,
       Query({"internal_validation/internal_validation_claims_input_table"}, "propagate"),
       Query({"manual_validation/manual_validation_claims_input_table"}, "propagate"),
       Emit(<< "claims/pipeline/validation/vl_glosa_arvo/expired/total" >>, {Partner},
            "expired", << "internal_validation/internal_validation_claims_input_table",
                          "manual_validation/manual_validation_claims_input_table" >>) >>

\* PipelineRunHandler.handle
PipelineRunSteps ==
    << PayloadIndex, VariablesGet,
       Require("partner", MissingRequired("partner")),
       Timestamp,
       Emit(<< "mageai/pipeline_run/count" >>,
            {Partner, <<"pipeline_uuid", "uuid">>, <<"pipeline_status", "status">>},
            "one", << >>) >>

ConcreteClasses == {
    "PipelineRunHandler", "PreFilteredApprovalHandler", "PreFilteredWranglingHandler",
    "ProcessableApprovalHandler", "ProcessableWranglingHandler",
    "PostFilteredSelectionHandler", "SavingsEvaluationHandler",
    "SelectedSavingsApprovalHandler", "NewBeneficiariesApprovalHandler",
    "ProvidersVolumeRatioWranglingHandler", "UnsentClaimsHandler",
    "UnsentSavingsHandler", "ExpiredValidationClaimsHandler" }

\* The base classes without a concrete class in the repository; their tests
\* configure them for the approval pipeline.
BaseClasses == {"NewProvidersBaseHandler", "BeneficiariesVolumeRatioBaseHandler"}

\* The handle method of each class, with the configuration its class (or, for a
\* base class, its test) hands to the base class.
Steps(cls) ==
    CASE cls = "PipelineRunHandler" -> PipelineRunSteps
      [] cls = "PreFilteredApprovalHandler" -> PreFilteredApprovalSteps
      [] cls = "PreFilteredWranglingHandler" ->
           PreFilteredSteps("pipesv2_wrangling", "refined_unprocessable_claims_output_table",
                            "refined_processable_claims_output_table", "false")
      [] cls = "ProcessableApprovalHandler" ->
           ProcessableSteps("pipesv2_approval", "processable_claims_input_table",
                            "unprocessable_claims_input_table", "true")
      [] cls = "ProcessableWranglingHandler" ->
           ProcessableSteps("pipesv2_wrangling", "refined_processable_claims_output_table",
                            "refined_unprocessable_claims_output_table", "false")
      [] cls = "PostFilteredSelectionHandler" ->
           PostFilteredSteps("pipesv2_selection", "excluded_savings_output_table",
                             "savings_input_table", "false")
      [] cls = "SavingsEvaluationHandler" ->
           SavingsSteps("pipesv2_evaluation", "savings_output_table", "false")
      [] cls = "SelectedSavingsApprovalHandler" -> SelectedSavingsApprovalSteps
      [] cls = "NewBeneficiariesApprovalHandler" ->
           BatchHistoricalSteps("processable_claims_input_table",
                                "unprocessable_claims_input_table",
                                "processable_claims_output_table",
                                "unprocessable_claims_output_table", "true",
                                "claims/beneficiaries/new_pct_3mo", "new_beneficiaries")
      [] cls = "ProvidersVolumeRatioWranglingHandler" ->
           BatchHistoricalSteps("refined_processable_claims_output_table",
                                "refined_unprocessable_claims_output_table",
                                "refined_processable_claims_historical_table",
                                "refined_unprocessable_claims_historical_table", "false",
                                "claims/pipeline/providers/volume_ratio_last_1_mo",
                                "volume_ratio")
      [] cls = "NewProvidersBaseHandler" ->
           BatchHistoricalSteps("processable_claims_input_table",
                                "unprocessable_claims_input_table",
                                "processable_claims_output_table",
                                "unprocessable_claims_output_table", "true",
                                "claims/providers/new_pct_3mo", "new_providers")
      [] cls = "BeneficiariesVolumeRatioBaseHandler" ->
           BatchHistoricalSteps("processable_claims_input_table",
                                "unprocessable_claims_input_table",
                                "processable_claims_output_table",
                                "unprocessable_claims_output_table", "true",
                                "claims/pipeline/beneficiaries/volume_ratio_last_1_mo",
                                "volume_ratio")
      [] cls = "UnsentClaimsHandler" -> UnsentClaimsSteps
      [] cls = "UnsentSavingsHandler" -> UnsentSavingsSteps
      [] OTHER -> ExpiredValidationClaimsSteps

\* The pipeline whose COMPLETED event the match of the class accepts ("" for
\* PipelineRunHandler, which accepts every pipeline).
Pipeline(cls) ==
    CASE cls \in {"PreFilteredApprovalHandler", "ProcessableApprovalHandler",
                  "SelectedSavingsApprovalHandler", "NewBeneficiariesApprovalHandler"}
                 \cup BaseClasses
           -> "pipesv2_approval"
      [] cls \in {"PreFilteredWranglingHandler", "ProcessableWranglingHandler",
                  "ProvidersVolumeRatioWranglingHandler"} -> "pipesv2_wrangling"
      [] cls = "PostFilteredSelectionHandler" -> "pipesv2_selection"
      [] cls = "SavingsEvaluationHandler" -> "pipesv2_evaluation"
      [] cls \in {"UnsentClaimsHandler", "UnsentSavingsHandler"} -> "pipesv2_submission"
      [] cls = "ExpiredValidationClaimsHandler" -> "pipesv2_release"
      [] OTHER -> ""

\* The classes whose match reads the payload with decoded_message.get("payload", {}),
\* without the `if not payload: return False` guard of the others.
UnguardedMatch == {"PreFilteredApprovalHandler", "ProcessableApprovalHandler",
                   "SelectedSavingsApprovalHandler", "SavingsEvaluationHandler",
                   "NewBeneficiariesApprovalHandler"}

\* match of a concrete class on message m.
ConcreteMatch(cls, m) ==
    IF m.kind # "dict" THEN "raise"
    ELSE IF cls = "PipelineRunHandler"
      THEN IF ~m.has_payload \/ ~m.has_source_timestamp THEN "false"
           ELSE IF m.payload_kind = "null" THEN "raise"
           ELSE IF m.payload_kind = "str" THEN "false"
           ELSE IF m.pipeline_uuid = "" \/ m.status = "" THEN "false"
           ELSE "true"
    ELSE IF ~m.has_payload THEN "false"
    ELSE IF m.payload_kind = "null"
      THEN IF cls \in UnguardedMatch THEN "raise" ELSE "false"
    ELSE IF m.payload_kind = "str" THEN "raise"
    ELSE IF m.pipeline_uuid = Pipeline(cls) /\ m.status = "COMPLETED" THEN "true"
    ELSE "false"

\* variables.get(key) (or the get on the mapping stored under `container`):
\* absent, falsy or set.
VarState(m, container, key) ==
    IF m.variables_kind = "absent" THEN "absent"
    ELSE IF container # "" /\ m.variables[container] = "absent" THEN "absent"
    ELSE m.variables[key]

\* ------------------------------------------------------------ query engine
\* What the tables hold during one dispatch.  Times of rows are kept as the
\* distance to the event's source_timestamp (days_ago, minutes_ago).
\*   sums        per table variable: SUM of the amount column the handler reads
\*   savings     rows of the savings table: id, agent_id, vl_glosa_arvo
\*   batch       rows of the two batch tables together: id (id_matricula or
\*               id_prestador), categoria, id_arvo
\*   historical  rows of the two historical tables together: id, categoria,
\*               id_arvo, days_ago (created_at)
\*   claims      rows of the two historical claims tables of the submission
\*               pipeline: id_arvo, vl_pago, vl_info, minutes_ago (ingested_at)
\*   validation  rows of the internal validation table: id_arvo, id_fatura,
\*               status, minutes_ago (ingested_at)
\*   submitted   rows of the submitted-claims table: id, submission_run_id,
\*               id_arvo, status, vl_pago, vl_info, vl_glosa_arvo, minutes_ago
\*   accepted    SUM of the accepted savings inside the window
Null == "NULL"
SavingsRow(id, agent_id, vl_glosa_arvo) ==
    [id |-> id, agent_id |-> agent_id, vl_glosa_arvo |-> vl_glosa_arvo]
BatchRow(id, categoria, id_arvo) == [id |-> id, categoria |-> categoria, id_arvo |-> id_arvo]
HistoricalRow(id, categoria, id_arvo, days_ago) ==
    [id |-> id, categoria |-> categoria, id_arvo |-> id_arvo, days_ago |-> days_ago]
ClaimRow(id_arvo, vl_pago, vl_info, minutes_ago) ==
    [id_arvo |-> id_arvo, vl_pago |-> vl_pago, vl_info |-> vl_info, minutes_ago |-> minutes_ago]
ValidationRow(id_arvo, id_fatura, status, minutes_ago) ==
    [id_arvo |-> id_arvo, id_fatura |-> id_fatura, status |-> status,
     minutes_ago |-> minutes_ago]
SubmittedRow(id, run, id_arvo, status, vl_pago, vl_info, vl_glosa_arvo, minutes_ago) ==
    [id |-> id, submission_run_id |-> run, id_arvo |-> id_arvo, status |-> status,
     vl_pago |-> vl_pago, vl_info |-> vl_info, vl_glosa_arvo |-> vl_glosa_arvo,
     minutes_ago |-> minutes_ago]

\* The submission_run_id a submission event carries.
RunId == "run"

DefaultData ==
    [ sums |-> [k \in VarKeys |-> 1],
      savings |-> {SavingsRow(1, "agent", 1)},
      batch |-> {BatchRow("m1", "c1", "a1")},
      historical |-> {},
      claims |-> {ClaimRow("a1", 1, 1, 60)},
      validation |-> {},
      submitted |-> {SubmittedRow(1, RunId, "a1", "SUBMITTED_SUCCESS", 1, 1, 1, 30)},
      accepted |-> 1 ]

\* The BigQuery client during one dispatch: fails (every call raises an error
\* other than NotFound), missing (the table variables whose table does not
\* exist), empty (every table holds no row), data (what the tables hold).
QueryEngine(fails, missing, empty, data) ==
    [fails |-> fails, missing |-> missing, empty |-> empty, data |-> data]

\* The rows of a table, and COALESCE(SUM(column), 0) over the table named by
\* variable t: an empty table contributes no row.
Rows(qe, field) == IF qe.empty THEN {} ELSE qe.data[field]
TableSum(qe, t) == IF qe.empty THEN 0 ELSE qe.data.sums[t]

\* ------------------------------------------------------------ computations
\* One row of what a handler emits: the labels the row adds to the base labels
\* and one value per metric name of the step.
Row(labels, values) == [labels |-> labels, values |-> values]

\* PreFilteredBaseHandler: total_vl_pago of the unprocessable table and
\* CASE WHEN (u + p) > 0 THEN u / (u + p) ELSE 0 END.
PreFilteredValues(qe, unprocessable, processable) ==
    LET u == TableSum(qe, unprocessable)
        p == TableSum(qe, processable)
    IN  << float(u), IF u + p > 0 THEN Div(u, u + p) ELSE Zero >>

\* PreFilteredApprovalHandler: CASE WHEN p > 0 THEN u / p ELSE 0 END.
PreFilteredApprovalValues(qe, unprocessable, processable) ==
    LET u == TableSum(qe, unprocessable)
        p == TableSum(qe, processable)
    IN  << float(u), IF p > 0 THEN Div(u, p) ELSE Zero >>

\* The sum a handler uses for a table it treats as optional: `except NotFound`
\* sets it to 0.0.
OptionalSumIgnoresMissing(qe, t) == TableSum(qe, t)
OptionalSum(qe, t) == IF t \in qe.missing THEN 0 ELSE TableSum(qe, t)

\* ProcessableBaseHandler: the total, and the relative value when total_sum > 0.
ProcessableTotal(qe, processable, unprocessable) == float(OptionalSum(qe, processable))
ProcessableRelative(qe, processable, unprocessable) ==
    LET total_vl_pago == OptionalSum(qe, processable)
        total_sum == total_vl_pago + OptionalSum(qe, unprocessable)
    IN  IF total_sum > 0 THEN << Row({}, << Div(total_vl_pago, total_sum) >>) >> ELSE << >>

\* PostFilteredBaseHandler: the excluded total and
\* total / savings if savings > 0 else 0.0.
PostFilteredValues(qe, excluded, savings) ==
    LET total_vl_glosa_arvo == OptionalSum(qe, excluded)
        savings_vl_glosa_arvo == TableSum(qe, savings)
    IN  << float(total_vl_glosa_arvo),
           IF savings_vl_glosa_arvo > 0
             THEN Div(total_vl_glosa_arvo, savings_vl_glosa_arvo) ELSE Zero >>

\* ExpiredValidationClaimsHandler: internal_sum + manual_sum.
ExpiredTotal(qe, internal, manual) == float(TableSum(qe, internal) + TableSum(qe, manual))

\* The elements of a finite set in some order (the order of the rows of a query
\* without ORDER BY).
RECURSIVE SetToSeq(_)
SetToSeq(S) ==
    IF S = {} THEN << >>
    ELSE LET x == CHOOSE y \in S : TRUE IN << x >> \o SetToSeq(S \ {x})

\* SUM(column) over the rows of S.
RECURSIVE SumField(_, _)
SumField(S, column) ==
    IF S = {} THEN 0
    ELSE LET x == CHOOSE y \in S : TRUE IN x[column] + SumField(S \ {x}, column)

\* The aggregation without GROUP BY agent_id: one row for the whole table.
SavingsUngrouped(rows) ==
    IF rows = {} THEN {}
    ELSE { [ agent_id |-> (CHOOSE r \in rows : TRUE).agent_id,
             total_vl_glosa_arvo |-> SumField(rows, "vl_glosa_arvo"),
             row_count |-> Cardinality(rows) ] }

\* SELECT agent_id, COALESCE(SUM(vl_glosa_arvo), 0), COUNT(*) ... GROUP BY agent_id
SavingsByAgent(rows) ==
    { [ agent_id |-> a,
        total_vl_glosa_arvo |-> SumField({r \in rows : r.agent_id = a}, "vl_glosa_arvo"),
        row_count |-> Cardinality({r \in rows : r.agent_id = a}) ]
      : a \in {r.agent_id : r \in rows} }

\* SavingsBaseHandler: amount and count per agent_id.
SavingsResult(qe) ==
    LET groups == SetToSeq(SavingsByAgent(Rows(qe, "savings")))
    IN  [i \in 1..Len(groups) |->
           Row({<<"agent_id", groups[i].agent_id>>},
               << float(groups[i].total_vl_glosa_arvo), float(groups[i].row_count) >>)]

\* SelectedSavingsApprovalHandler: amount per agent_id.
SelectedSavingsResult(qe) ==
    LET groups == SetToSeq(SavingsByAgent(Rows(qe, "savings")))
    IN  [i \in 1..Len(groups) |->
           Row({<<"agent_id", groups[i].agent_id>>},
               << float(groups[i].total_vl_glosa_arvo) >>)]

\* ------------------------------------------- new entities and volume ratios
\* The windows of the handlers, in days before source_timestamp.  The cut-off is
\* handed to the query as a date, and the rows of the model are whole days old.
NinetyDays == 90
ThirtyDays == 30
SixtyDays == 60

\* WITH batch_id_arvo AS (SELECT DISTINCT id_arvo ... WHERE id_arvo IS NOT NULL)
batch_id_arvo(batch) == { r.id_arvo : r \in {x \in batch : x.id_arvo # Null} }

\* batch_beneficiaries: DISTINCT (id_matricula, categoria), both non-null.
batch_beneficiaries(batch) ==
    { <<r.id, r.categoria>> : r \in {x \in batch : x.id # Null /\ x.categoria # Null} }

\* The anti-join left out: every historical row is kept.
NotInBatchKeepsAll(h1, batch) == TRUE

\* NOT EXISTS (SELECT 1 FROM batch_id_arvo b WHERE b.id_arvo = h1.id_arvo): the
\* comparison with a NULL id_arvo selects no row.
NotInBatch(h1, batch) ==
    ~ \E b \in batch_id_arvo(batch) : h1.id_arvo # Null /\ b = h1.id_arvo

\* historical_beneficiaries: DISTINCT (id_matricula, categoria) of the rows with
\* created_at >= three_months_ago_date whose id_arvo is no batch id_arvo.
historical_beneficiaries(historical, batch) ==
    { <<r.id, r.categoria>> :
        r \in {x \in historical : /\ x.days_ago <= NinetyDays
                                   /\ x.id # Null /\ x.categoria # Null
                                   /\ NotInBatch(x, batch)} }

\* batch_counts: COUNT(DISTINCT id_matricula) ... GROUP BY categoria
batch_counts(bb) ==
    { [categoria |-> c, total_beneficiaries |-> Cardinality({x \in bb : x[2] = c})]
      : c \in {x[2] : x \in bb} }

\* new_beneficiaries_counts: the batch beneficiaries without a historical row of
\* the same id_matricula and categoria, counted per categoria.
new_beneficiaries_counts(bb, hb) ==
    LET unmatched == {x \in bb : x \notin hb}
    IN  { [categoria |-> c, new_beneficiaries |-> Cardinality({x \in unmatched : x[2] = c})]
          : c \in {x[2] : x \in unmatched} }

\* The final SELECT: batch_counts LEFT JOIN new_beneficiaries_counts.
new_beneficiaries_query(batch, historical) ==
    LET bb == batch_beneficiaries(batch)
        hb == historical_beneficiaries(historical, batch)
        nbcs == new_beneficiaries_counts(bb, hb)
    IN  { LET nbc == {n \in nbcs : n.categoria = bc.categoria}
              new_beneficiaries ==
                  IF nbc = {} THEN 0 ELSE (CHOOSE n \in nbc : TRUE).new_beneficiaries
          IN  [ categoria |-> bc.categoria,
                new_pct |-> IF bc.total_beneficiaries > 0
                              THEN Div(new_beneficiaries, bc.total_beneficiaries)
                              ELSE Zero ]
          : bc \in batch_counts(bb) }

\* batch_categories_query: SELECT DISTINCT categoria ... WHERE categoria IS NOT NULL
batch_categories_query(batch) == { r.categoria : r \in {x \in batch : x.categoria # Null} }

\* NewBeneficiariesBaseHandler: one point per category; 1.0 for every batch
\* category when a historical table does not exist.
NewBeneficiariesResult(qe, historical_tables_exist) ==
    IF historical_tables_exist
      THEN LET rows == SetToSeq(new_beneficiaries_query(Rows(qe, "batch"),
                                                        Rows(qe, "historical")))
           IN  [i \in 1..Len(rows) |->
                  Row({<<"category", rows[i].categoria>>}, << rows[i].new_pct >>)]
      ELSE LET rows == SetToSeq(batch_categories_query(Rows(qe, "batch")))
           IN  [i \in 1..Len(rows) |-> Row({<<"category", rows[i]>>}, << One >>)]

\* new_providers_query: the one row of provider_counts.
batch_providers(batch) == { r.id : r \in {x \in batch : x.id # Null} }
historical_providers(historical, batch) ==
    { r.id : r \in {x \in historical : /\ x.days_ago <= NinetyDays
                                        /\ x.id # Null
                                        /\ NotInBatch(x, batch)} }
new_providers_query(batch, historical) ==
    LET bp == batch_providers(batch)
        hp == historical_providers(historical, batch)
        total_providers == Cardinality(bp)
        new_providers == Cardinality(bp \ hp)
    IN  IF total_providers > 0 THEN Div(new_providers, total_providers) ELSE Zero

\* NewProvidersBaseHandler: one point; 1.0 when a historical table does not exist.
NewProvidersResult(qe, historical_tables_exist) ==
    IF historical_tables_exist
      THEN << Row({}, << new_providers_query(Rows(qe, "batch"), Rows(qe, "historical")) >>) >>
      ELSE << Row({}, << One >>) >>

\* The volume ratio queries: the entities of the batch and of the last month
\* against those of the month before.  The counts are taken over the CROSS JOIN
\* of the two sets, which is empty when one of them is.
latest_entities(batch, historical) ==
    { r.id : r \in {x \in batch : x.id # Null} }
    \cup { r.id : r \in {x \in historical : x.days_ago <= ThirtyDays /\ x.id # Null} }
previous_entities(historical) ==
    { r.id : r \in {x \in historical : /\ x.days_ago <= SixtyDays
                                        /\ x.days_ago > ThirtyDays
                                        /\ x.id # Null} }
volume_ratio_query(batch, historical) ==
    LET l == latest_entities(batch, historical)
        p == previous_entities(historical)
        latest_count == IF p = {} THEN 0 ELSE Cardinality(l)
        previous_count == IF l = {} THEN 0 ELSE Cardinality(p)
    IN  IF previous_count > 0 /\ latest_count > 0 THEN Div(latest_count, previous_count)
        ELSE IF previous_count = 0 THEN One
        ELSE Zero

\* ProvidersVolumeRatioBaseHandler and BeneficiariesVolumeRatioBaseHandler: one
\* point; 1.0 when a historical table does not exist.
VolumeRatioResult(qe, historical_tables_exist) ==
    IF historical_tables_exist
      THEN << Row({}, << volume_ratio_query(Rows(qe, "batch"), Rows(qe, "historical")) >>) >>
      ELSE << Row({}, << One >>) >>

\* ------------------------------------------------------ submission handlers
\* timedelta(minutes=20) and INTERVAL 2 DAY, in minutes.
TwentyMinutes == 20
TwoDays == 2880

\* The smallest element of a non-empty set of numbers.
Min(S) == CHOOSE x \in S : \A y \in S : x <= y

\* COALESCE(MAX(ingested_at), source_timestamp - 20 minutes) over the rows of the
\* submitted-claims table of this submission_run_id, as minutes before
\* source_timestamp.
latest_ingested_at(submitted, submission_run_id) ==
    LET mine == {r \in submitted : r.submission_run_id = submission_run_id}
    IN  IF mine = {} THEN TwentyMinutes ELSE Min({r.minutes_ago : r \in mine})

\* ingested_at BETWEEN dr.start_date AND dr.end_date
InDateRange(r, latest) == r.minutes_ago >= latest /\ r.minutes_ago <= latest + TwoDays

\* ingested_claims: UNION DISTINCT of (id_arvo, vl_pago, vl_info) in the range.
ingested_claims(claims, latest) ==
    { [id_arvo |-> r.id_arvo, vl_pago |-> r.vl_pago, vl_info |-> r.vl_info]
      : r \in {x \in claims : InDateRange(x, latest)} }

\* pending_invoices: the invoices with a SENT_FOR_VALIDATION row in the range.
pending_invoices(validation, latest) ==
    { r.id_fatura : r \in {x \in validation : /\ InDateRange(x, latest)
                                               /\ x.status = "SENT_FOR_VALIDATION"} }

\* non_sendable_claims: pending, expired or excluded, or of a pending invoice.
non_sendable_claims(validation, latest) ==
    { r.id_arvo : r \in {x \in validation :
                           /\ InDateRange(x, latest)
                           /\ x.status \in {"SENT_FOR_VALIDATION", "EXPIRED", "EXCLUDED"}} }
    \cup { r.id_arvo : r \in {x \in validation :
                                /\ InDateRange(x, latest)
                                /\ x.id_fatura # Null
                                /\ x.id_fatura \in pending_invoices(validation, latest)} }

\* sendable_claims: the ingested claims that are not non-sendable.
sendable_claims(claims, validation, latest) ==
    { ic \in ingested_claims(claims, latest) :
        ic.id_arvo \notin non_sendable_claims(validation, latest) }

\* The rows of `submitted sub INNER JOIN sendable_claims send ON sub.id_arvo =
\* send.id_arvo` with sub.status = status.
SubmittedSendable(submitted, sendable, status) ==
    { <<sub, send>> \in submitted \X sendable :
        sub.id_arvo = send.id_arvo /\ sub.status = status }

\* SUM(send.column) over rows of the join.
RECURSIVE SumJoined(_, _)
SumJoined(J, column) ==
    IF J = {} THEN 0
    ELSE LET x == CHOOSE y \in J : TRUE IN x[2][column] + SumJoined(J \ {x}, column)

\* CASE IFNULL(total, 0) WHEN 0 THEN 1.0
\*      ELSE COALESCE(SAFE_DIVIDE(status_sum, total), 0) END
\* joined is empty when totals_by_status has no row for the status.
Perc(joined, sendable, column) ==
    LET total == SumField(sendable, column)
    IN  IF total = 0 THEN One
        ELSE IF joined = {} THEN Zero
        ELSE Div(SumJoined(joined, column), total)

\* unsent_claims_query: one row per status of totals_by_status and one for
\* SUBMITTED_SUCCESS.
unsent_claims_query(claims, validation, submitted, submission_run_id) ==
    LET latest == latest_ingested_at(submitted, submission_run_id)
        sendable == sendable_claims(claims, validation, latest)
        joined(s) == SubmittedSendable(submitted, sendable, s)
        statuses == {s \in {r.status : r \in submitted} : joined(s) # {}}
                    \cup {"SUBMITTED_SUCCESS"}
    IN  { [ status |-> s,
            perc_pago |-> Perc(joined(s), sendable, "vl_pago"),
            perc_info |-> Perc(joined(s), sendable, "vl_info") ] : s \in statuses }

\* UnsentClaimsHandler: the two shares per status.
UnsentClaimsResult(qe) ==
    LET rows == SetToSeq(unsent_claims_query(Rows(qe, "claims"), Rows(qe, "validation"),
                                             Rows(qe, "submitted"), RunId))
    IN  [i \in 1..Len(rows) |->
           Row({<<"status", rows[i].status>>}, << rows[i].perc_pago, rows[i].perc_info >>)]

\* submitted_savings_query: COALESCE(SUM(vl_glosa_arvo), 0) per status over the
\* rows of this submission_run_id in the range.
submitted_savings_query(submitted, submission_run_id) ==
    LET latest == latest_ingested_at(submitted, submission_run_id)
        mine == {r \in submitted : /\ r.submission_run_id = submission_run_id
                                    /\ InDateRange(r, latest)}
    IN  { [ status |-> s,
            total_submitted |-> SumField({r \in mine : r.status = s}, "vl_glosa_arvo") ]
          : s \in {r.status : r \in mine} }

\* UnsentSavingsHandler: one point with 1.0 when the accepted total is 0,
\* otherwise one point per status seen, SUBMISSION_SUCCESS among them.
UnsentSavingsResult(qe) ==
    LET total_accepted == IF qe.empty THEN 0 ELSE qe.data.accepted
        result == submitted_savings_query(Rows(qe, "submitted"), RunId)
        statuses_seen == SetToSeq({r.status : r \in result} \cup {"SUBMISSION_SUCCESS"})
        total_for_status(s) ==
            IF \E r \in result : r.status = s
              THEN (CHOOSE r \in result : r.status = s).total_submitted
              ELSE 0
    IN  IF total_accepted = 0
          THEN << Row({<<"status", "SUBMISSION_SUCCESS">>}, << One >>) >>
          ELSE [i \in 1..Len(statuses_seen) |->
                  Row({<<"status", statuses_seen[i]>>},
                      << IF total_accepted > 0
                           THEN Div(total_for_status(statuses_seen[i]), total_accepted)
                           ELSE Zero >>)]

\* The rows an emit step emits, in order: what the queries of the handler
\* returned, turned into the values of the metric names of the step.
Results(s, qe) ==
    LET historical_tables_exist ==
            Len(s.args) = 4 /\ s.args[3] \notin qe.missing /\ s.args[4] \notin qe.missing
    IN
    CASE s.compute = "pre_filtered" ->
           << Row({}, PreFilteredValues(qe, s.args[1], s.args[2])) >>
      [] s.compute = "pre_filtered_approval" ->
           << Row({}, PreFilteredApprovalValues(qe, s.args[1], s.args[2])) >>
      [] s.compute = "processable_total" ->
           << Row({}, << ProcessableTotal(qe, s.args[1], s.args[2]) >>) >>
      [] s.compute = "processable_relative" ->
           ProcessableRelative(qe, s.args[1], s.args[2])
      [] s.compute = "post_filtered" ->
           << Row({}, PostFilteredValues(qe, s.args[1], s.args[2])) >>
      [] s.compute = "expired" ->
           << Row({}, << ExpiredTotal(qe, s.args[1], s.args[2]) >>) >>
      [] s.compute = "savings" -> SavingsResult(qe)
      [] s.compute = "selected_savings" -> SelectedSavingsResult(qe)
      [] s.compute = "new_beneficiaries" -> NewBeneficiariesResult(qe, historical_tables_exist)
      [] s.compute = "new_providers" -> NewProvidersResult(qe, historical_tables_exist)
      [] s.compute = "volume_ratio" -> VolumeRatioResult(qe, historical_tables_exist)
      [] s.compute = "unsent_claims" -> UnsentClaimsResult(qe)
      [] s.compute = "unsent_savings" -> UnsentSavingsResult(qe)
      [] OTHER -> << Row({}, << One >>) >>

\* The points of an emit step: for each row, one point per metric name.
Points(s, rows, ts) ==
    [j \in 1..(Len(rows) * Len(s.names)) |->
       LET r == rows[((j - 1) \div Len(s.names)) + 1]
           n == ((j - 1) % Len(s.names)) + 1
       IN  Point(s.names[n], r.values[n], s.labels \cup r.labels, ts)]

\* The references a query step hands to get_table / query.
QueryRefs(s, m) ==
    { ensure_full_table_ref(DataProject, TableRef(m.table_form, t)) : t \in s.tables }

\* A fault of the metrics sink during one handle: create_time_series raises
\* exception `exc` at the at-th point handle emits (at = 0: no fault).
SinkFault(at, exc) == [at |-> at, exc |-> exc]
NoFault == SinkFault(0, "")
SinkErrors == {"ServiceUnavailable", "NotFound"}

\* The rest of a handle method from step k on; acc holds the points the sink
\* accepted and the table references sent to the query engine so far.
RECURSIVE Run(_, _, _, _, _, _)
Run(steps, k, m, qe, fault, acc) ==
    LET End(result, message, text, a) ==
            [HandleResult(result, message, text, a.points) EXCEPT !.queries = a.queries]
    IN
    IF k > Len(steps) THEN End("ok", NoText, "", acc)
    ELSE
      LET s == steps[k]
          go == Run(steps, k + 1, m, qe, fault, acc)
          internal(e) == End("internal", NoText, e, acc)
      IN
      CASE s.op = "payload_index" ->
             IF m.kind # "dict" THEN internal("TypeError")
             ELSE IF ~m.has_payload THEN internal("KeyError") ELSE go
        [] s.op = "payload_get" ->
             IF m.kind # "dict" THEN internal("AttributeError")
             ELSE IF ~m.has_payload \/ m.payload_kind = "null"
               THEN End("bad_request", s.message, "", acc)
             ELSE go
        [] s.op = "variables" ->
             IF m.payload_kind # "mapping" THEN internal("AttributeError") ELSE go
        [] s.op = "defensive" ->
             IF m.payload_kind # "mapping" THEN internal("AttributeError")
             ELSE IF m.pipeline_uuid # s.uuid \/ m.status # "COMPLETED"
               THEN End("ok", NoText, "", acc)
             ELSE go
        [] s.op = "nested" ->
             IF m.variables_kind = "null" THEN internal("AttributeError")
             ELSE IF VarState(m, "", s.container) = "falsy" THEN internal("AttributeError")
             ELSE go
        [] s.op = "require" ->
             IF m.variables_kind = "null" THEN internal("AttributeError")
             ELSE IF VarState(m, s.container, s.key) # "set"
               THEN End("bad_request", s.message, "", acc)
             ELSE go
        [] s.op = "timestamp" ->
             IF ~m.has_source_timestamp THEN internal("KeyError")
             ELSE IF m.source_timestamp = 0 THEN internal("ValueError")
             ELSE go
        [] s.op = "query" ->
             LET asked == [acc EXCEPT !.queries = @ \cup QueryRefs(s, m)]
             IN  IF qe.fails THEN End("internal", NoText, "query failed", asked)
                 ELSE IF s.tables \cap qe.missing # {}
                   THEN CASE s.on_missing = "propagate" ->
                               End("internal", NoText, "NotFound", asked)
                          [] s.on_missing = "bad_request" ->
                               End("bad_request", BatchTablesNotFound, "", asked)
                          [] s.on_missing = "return" -> End("ok", NoText, "", asked)
                          [] OTHER -> Run(steps, k + 1, m, qe, fault, asked)
                 ELSE Run(steps, k + 1, m, qe, fault, asked)
        [] OTHER ->
             LET ps == Points(s, Results(s, qe), SourceTimestamp(m))
                 c == Len(acc.points)
             IN  IF fault.at > c /\ fault.at <= c + Len(ps)
                   THEN LET got == [acc EXCEPT
                                      !.points = @ \o SubSeq(ps, 1, fault.at - c - 1)]
                        IN  IF fault.exc = "NotFound" /\ s.on_missing = "return"
                              THEN End("ok", NoText, "", got)
                            ELSE IF fault.exc = "NotFound" /\ s.on_missing = "bad_request"
                              THEN End("bad_request", BatchTablesNotFound, "", got)
                            ELSE End("internal", NoText, fault.exc, got)
                   ELSE Run(steps, k + 1, m, qe, fault,
                            [acc EXCEPT !.points = @ \o ps])

\* handler.match(decoded_message): "true", "false" or "raise".
match(h, m) == IF h.match = "code" THEN ConcreteMatch(h.cls, m) ELSE h.match

\* handler.handle(decoded_message) under a fault of the sink: a test handler
\* that succeeds emits one point stamped with the event's source_timestamp.
handle(h, m, qe, fault) ==
    CASE h.handle = "code" ->
           Run(Steps(h.cls), 1, m, qe, fault, [points |-> << >>, queries |-> {}])
      [] h.handle = "ok" ->
           IF fault.at = 1
             THEN HandleResult("internal", NoText, fault.exc, << >>)
             ELSE HandleResult("ok", NoText, "",
                    << Point("test_metric", One, {<<"handler", h.cls>>}, SourceTimestamp(m)) >>)
      [] h.handle = "bad_request" -> HandleResult("bad_request", h.message, "", << >>)
      [] OTHER -> HandleResult("internal", NoText, h.text, << >>)

\* -------------------------------------------------------------- dispatcher
\* make_response((body, status))
make_response(body, status) == [status |-> status, body |-> body]
NoResponse == [status |-> 0, body |-> EmptyBody]

\* An entry of the invocation log: op is match, handle, the name of the gauge the
\* dispatcher handed to the sink, or create_time_series for a point of a handler
\* at which the sink raised (outcome: the exception); handler is the index of the handler called (0
\* for a gauge); outcome is what the call did (true / false / raise for match; ok /
\* bad_request / internal for handle; ok / raise for the sink).
Call(op, i, cls, outcome, message) ==
    [op |-> op, handler |-> i, cls |-> cls, outcome |-> outcome, message |-> message]

\* The loops in another order: the matcher gauges before the handle calls.
NextLoopGaugesFirst(phase, me, mh, he) ==
    IF phase = "match" /\ me # << >> THEN "emit_matcher"
    ELSE IF phase \in {"match", "emit_matcher"} /\ mh # << >> THEN "execute"
    ELSE IF he # << >> /\ phase # "emit_handler" THEN "emit_handler"
    ELSE "respond"

\* The loop that runs after loop `phase` has ended: a for-loop over an empty list
\* runs no iteration.
NextLoop(phase, me, mh, he) ==
    IF phase = "match" /\ mh # << >> THEN "execute"
    ELSE IF phase \in {"match", "execute"} /\ me # << >> THEN "emit_matcher"
    ELSE IF phase \in {"match", "execute", "emit_matcher"} /\ he # << >> THEN "emit_handler"
    ELSE "respond"

\* Entry of dispatch: read the wall clock, decode the event, return 400 when the
\* decoder returned None.  An exception of the decoder leaves dispatch.
Decode ==
    /\ pc = "start"
    /\ \E now \in 1..MaxTime :
         LET d == decode_message(cloud_event)
         IN  /\ timestamp' = now
             /\ decoded_message' = d
             /\ IF d.kind = "raise"
                  THEN /\ pc' = "raised"
                       /\ escaped' = d.exc
                       /\ UNCHANGED response
                ELSE IF d.kind = "none"
                  THEN /\ pc' = "done"
                       /\ response' = make_response(InvalidFormatBody, 400)
                       /\ UNCHANGED escaped
                ELSE /\ pc' = IF handlers = << >> THEN "respond" ELSE "match"
                     /\ UNCHANGED <<response, escaped>>
    /\ idx' = 1
    /\ UNCHANGED <<parked, handlers, cloud_event, query_engine, matcher_errors, matched_handlers,
                   handler_errors, sink, calls, queried>>

\* matched_handlers after handler i's match ended with r.
MatchedAfterRaiseToo(mh, i, r) == IF r \in {"true", "raise"} THEN Append(mh, i) ELSE mh
MatchedAfter(mh, i, r) == IF r = "true" THEN Append(mh, i) ELSE mh

\* matcher_errors after the match of handler h ended with r.
MatcherErrorsAfter(me, h, r) ==
    IF r = "raise"
      THEN Append(me, [handler_class |-> h.cls, error |-> Text(h.text)])
      ELSE me

\* One iteration of `for handler in self.handlers`.
Match ==
    /\ pc = "match"
    /\ LET h == handlers[idx]
           r == match(h, decoded_message.value)
           mh == MatchedAfter(matched_handlers, idx, r)
           me == MatcherErrorsAfter(matcher_errors, h, r)
       IN  /\ matched_handlers' = mh
           /\ matcher_errors' = me
           /\ calls' = Append(calls, Call("match", idx, h.cls, r, NoText))
           /\ IF idx < Len(handlers)
                THEN /\ idx' = idx + 1
                     /\ pc' = "match"
                ELSE /\ idx' = 1
                     /\ pc' = NextLoop("match", me, mh, handler_errors)
    /\ UNCHANGED <<parked, handlers, cloud_event, query_engine, timestamp, decoded_message,
                   handler_errors, sink, queried, response, escaped>>

\* handler_errors after the handle of handler h ended as `out`.
HandlerErrorsAfterDropBadRequest(he, h, out) ==
    IF out.result = "internal"
      THEN Append(he, [handler_class |-> h.cls, error |-> Text(out.text),
                       error_type |-> "internal_error"])
      ELSE he
HandlerErrorsAfter(he, h, out) ==
    CASE out.result = "bad_request" ->
           Append(he, [handler_class |-> h.cls, error |-> out.message,
                       error_type |-> "bad_request"])
      [] out.result = "internal" ->
           Append(he, [handler_class |-> h.cls, error |-> Text(out.text),
                       error_type |-> "internal_error"])
      [] OTHER -> he

\* One iteration of `for handler in matched_handlers`.  The sink either accepts
\* every point of the handler (f = 0) or raises exception e at the f-th one.
Execute ==
    /\ pc = "execute"
    /\ LET i == matched_handlers[idx]
           h == handlers[i]
           r == handle(h, decoded_message.value, query_engine, NoFault)
       IN  \E f \in 0..Len(r.points), e \in SinkErrors :
             LET out == handle(h, decoded_message.value, query_engine, SinkFault(f, e))
                 he == HandlerErrorsAfter(handler_errors, h, out)
             IN  /\ sink' = sink \o out.points
                 /\ queried' = queried \cup out.queries
                 /\ handler_errors' = he
                 /\ calls' = (IF f = 0 THEN calls
                               ELSE Append(calls, Call("create_time_series", i, h.cls, e, NoText)))
                              \o << Call("handle", i, h.cls, out.result, out.message) >>
                 /\ IF idx < Len(matched_handlers)
                      THEN /\ idx' = idx + 1
                           /\ pc' = "execute"
                      ELSE /\ idx' = 1
                           /\ pc' = NextLoop("execute", matcher_errors, matched_handlers, he)
    /\ UNCHANGED <<parked, handlers, cloud_event, query_engine, timestamp, decoded_message,
                   matcher_errors, matched_handlers, response, escaped>>

\* The gauge the dispatcher emits for a recorded failure.
FailureGauge(name, handler_class, ts) ==
    Point(name, One, {<<"handler_class", handler_class>>}, ts)

\* One iteration of `for handler_class, error in matcher_errors`: an exception of
\* the sink leaves dispatch.
EmitMatcherFailure ==
    /\ pc = "emit_matcher"
    /\ \E ok \in BOOLEAN :
         /\ calls' = Append(calls, Call("handler_matcher_failure", 0,
                                        matcher_errors[idx].handler_class,
                                        IF ok THEN "ok" ELSE "raise", NoText))
         /\ IF ok
              THEN /\ sink' = Append(sink, FailureGauge("handler_matcher_failure",
                                            matcher_errors[idx].handler_class, timestamp))
                   /\ IF idx < Len(matcher_errors)
                        THEN /\ idx' = idx + 1
                             /\ pc' = "emit_matcher"
                        ELSE /\ idx' = 1
                             /\ pc' = NextLoop("emit_matcher", matcher_errors,
                                               matched_handlers, handler_errors)
                   /\ UNCHANGED escaped
              ELSE /\ pc' = "raised"
                   /\ escaped' = "sink unavailable"
                   /\ UNCHANGED <<sink, idx>>
    /\ UNCHANGED <<parked, handlers, cloud_event, query_engine, timestamp, decoded_message,
                   matcher_errors, matched_handlers, handler_errors, queried, response>>

\* One iteration of `for handler_class, error, error_type in handler_errors`.
EmitHandlerFailure ==
    /\ pc = "emit_handler"
    /\ \E ok \in BOOLEAN :
         /\ calls' = Append(calls, Call("handler_execution_failure", 0,
                                        handler_errors[idx].handler_class,
                                        IF ok THEN "ok" ELSE "raise", NoText))
         /\ IF ok
              THEN /\ sink' = Append(sink, FailureGauge("handler_execution_failure",
                                            handler_errors[idx].handler_class, timestamp))
                   /\ IF idx < Len(handler_errors)
                        THEN /\ idx' = idx + 1
                             /\ pc' = "emit_handler"
                        ELSE /\ idx' = 1
                             /\ pc' = "respond"
                   /\ UNCHANGED escaped
              ELSE /\ pc' = "raised"
                   /\ escaped' = "sink unavailable"
                   /\ UNCHANGED <<sink, idx>>
    /\ UNCHANGED <<parked, handlers, cloud_event, query_engine, timestamp, decoded_message,
                   matcher_errors, matched_handlers, handler_errors, queried, response>>

\* bad_request_errors of dispatch: the recorded errors whose type is bad_request.
BadRequestErrors(he) == SelectSeq(he, LAMBDA e : e.error_type = "bad_request")

\* The response dispatch computes from the accumulated errors.
DetermineResponseHandlersFirst(me, he, mh) ==
    IF BadRequestErrors(he) # << >>
      THEN make_response(BadRequestErrors(he)[1].error, 400)
    ELSE IF me # << >> \/ he # << >> THEN make_response(InternalServerErrorBody, 500)
    ELSE make_response(EmptyBody, 204)
DetermineResponseLeaksError(me, he, mh) ==
    IF me # << >> THEN make_response(me[1].error, 500)
    ELSE IF he # << >>
      THEN IF BadRequestErrors(he) # << >>
             THEN make_response(BadRequestErrors(he)[1].error, 400)
             ELSE make_response(he[1].error, 500)
    ELSE make_response(EmptyBody, 204)
DetermineResponse(me, he, mh) ==
    IF me # << >> THEN make_response(InternalServerErrorBody, 500)
    ELSE IF he # << >>
      THEN IF BadRequestErrors(he) # << >>
             THEN make_response(BadRequestErrors(he)[1].error, 400)
             ELSE make_response(InternalServerErrorBody, 500)
    ELSE IF mh = << >> THEN make_response(EmptyBody, 204)
    ELSE make_response(EmptyBody, 204)

Respond ==
    /\ pc = "respond"
    /\ response' = DetermineResponse(matcher_errors, handler_errors, matched_handlers)
    /\ pc' = "done"
    /\ UNCHANGED <<parked, handlers, cloud_event, query_engine, timestamp, decoded_message, idx,
                   matcher_errors, matched_handlers, handler_errors, sink, calls, queried, escaped>>

Next == Decode \/ Match \/ Execute \/ EmitMatcherFailure \/ EmitHandlerFailure \/ Respond

\* ------------------------------------------------------------------ inputs
\* Class names of the test handlers; two registered handlers may share a class.
TestClasses == {"MockHandler", "FailingMatcherHandler"}
BadRequestMessages == {Text("bad input 1"), Text("bad input 2")}
ErrorTexts == {"error 1", "error 2"}

TestHandlers ==
    { Handler(c, "false", "ok", NoText, "") : c \in TestClasses }
    \cup { Handler(c, "raise", "ok", NoText, t) : c \in TestClasses, t \in ErrorTexts }
    \cup { Handler(c, "true", "ok", NoText, "") : c \in TestClasses }
    \cup { Handler(c, "true", "bad_request", m, "") : c \in TestClasses, m \in BadRequestMessages }
    \cup { Handler(c, "true", "internal", NoText, t) : c \in TestClasses, t \in ErrorTexts }

SeqsUpTo(S, n) == UNION { [1..k -> S] : k \in 0..n }

\* A pipeline completion message with every variable set.
CompletedMessage(ts) == PipelineMessage("test_pipeline", "COMPLETED", AllSet, ts)

\* Direct-form data that has no payload / no source_timestamp key.
NoPayloadData == Message("dict", FALSE, "mapping", "", "", "absent", AllSet, TRUE, 1)
NoTimestampData ==
    Message("dict", TRUE, "mapping", "test_pipeline", "COMPLETED", "mapping", AllSet, FALSE, 0)

Envelope(body) == Event("mapping", "mapping", "str", TRUE, TRUE, TRUE, body)
Direct(body) == Event("mapping", "absent", "absent", TRUE, TRUE, TRUE, body)

TestEvents ==
    { Envelope(CompletedMessage(ts)) : ts \in 1..MaxTime }
    \cup { Direct(CompletedMessage(ts)) : ts \in 1..MaxTime }
    \cup { Envelope(ScalarValue), Envelope(NullValue),
           Event("mapping", "mapping", "str", FALSE, TRUE, TRUE, CompletedMessage(1)),
           Event("mapping", "mapping", "str", TRUE, FALSE, TRUE, CompletedMessage(1)),
           Event("mapping", "mapping", "str", TRUE, TRUE, FALSE, CompletedMessage(1)),
           Event("mapping", "mapping", "int", TRUE, TRUE, TRUE, CompletedMessage(1)),
           Event("mapping", "mapping", "empty", TRUE, TRUE, TRUE, CompletedMessage(1)),
           Event("mapping", "mapping", "absent", TRUE, TRUE, TRUE, NoPayloadData),
           Event("mapping", "null", "absent", TRUE, TRUE, TRUE, CompletedMessage(1)),
           Event("mapping", "str", "absent", TRUE, TRUE, TRUE, CompletedMessage(1)),
           Event("none", "absent", "absent", TRUE, TRUE, TRUE, NoPayloadData),
           Direct(NoPayloadData), Direct(NoTimestampData) }

\* The query engine answers every call.
QueryEngineUp == QueryEngine(FALSE, {}, FALSE, DefaultData)

\* No second dispatch call is under way.
NoDispatch == [pc |-> "none"]

InitLocals ==
    /\ pc = "start"
    /\ timestamp = 0
    /\ decoded_message = None
    /\ idx = 1
    /\ matcher_errors = << >>
    /\ matched_handlers = << >>
    /\ handler_errors = << >>
    /\ sink = << >>
    /\ calls = << >>
    /\ queried = {}
    /\ response = NoResponse
    /\ escaped = ""
    /\ parked = NoDispatch

\* One dispatch of any event by a dispatcher built with any list of test handlers.
Init ==
    /\ handlers \in SeqsUpTo(TestHandlers, MaxHandlers)
    /\ cloud_event \in TestEvents
    /\ query_engine = QueryEngineUp
    /\ InitLocals

Spec == Init /\ [][Next]_vars

\* ------------------------------------------------- two concurrent dispatches
\* Two dispatch calls on one HandlerDispatcher, each in its own thread.  The
\* handler list, the clients and what they reach (query engine, sink) belong to
\* the instance and are shared; everything dispatch assigns is a local of the
\* call.  The variables above hold the locals of the call that is running, and
\* `parked` those of the other call.
Running ==
    [ cloud_event |-> cloud_event, pc |-> pc, timestamp |-> timestamp,
      decoded_message |-> decoded_message, idx |-> idx,
      matcher_errors |-> matcher_errors, matched_handlers |-> matched_handlers,
      handler_errors |-> handler_errors, calls |-> calls, response |-> response,
      escaped |-> escaped ]

\* The locals of a call that has not begun.
Entered(ev) ==
    [ cloud_event |-> ev, pc |-> "start", timestamp |-> 0, decoded_message |-> None,
      idx |-> 1, matcher_errors |-> << >>, matched_handlers |-> << >>,
      handler_errors |-> << >>, calls |-> << >>, response |-> NoResponse, escaped |-> "" ]

\* matched_handlers kept on the instance: the resumed call finds the list of
\* the call that ran last.
ResumedSharingMatched(t, last) == [t EXCEPT !.matched_handlers = last.matched_handlers]

\* The locals a call resumes with after another call (whose locals are `last`)
\* has run: its own.
Resumed(t, last) == t

\* The scheduler suspends the running call and resumes the other one, unless
\* that one has ended.
Switch ==
    /\ parked # NoDispatch
    /\ parked.pc \notin {"done", "raised"}
    /\ LET t == Resumed(parked, Running)
       IN  /\ cloud_event' = t.cloud_event
           /\ pc' = t.pc
           /\ timestamp' = t.timestamp
           /\ decoded_message' = t.decoded_message
           /\ idx' = t.idx
           /\ matcher_errors' = t.matcher_errors
           /\ matched_handlers' = t.matched_handlers
           /\ handler_errors' = t.handler_errors
           /\ calls' = t.calls
           /\ response' = t.response
           /\ escaped' = t.escaped
    /\ parked' = Running
    /\ UNCHANGED <<handlers, query_engine, sink, queried>>

NextConcurrent == Next \/ Switch

\* The handlers of the concurrent dispatches: one of each behaviour.
ConcurrentHandlers ==
    { Handler("MockHandler", "false", "ok", NoText, ""),
      Handler("FailingMatcherHandler", "raise", "ok", NoText, "error 1"),
      Handler("MockHandler", "true", "ok", NoText, ""),
      Handler("MockHandler", "true", "bad_request", Text("bad input 1"), ""),
      Handler("MockHandler", "true", "internal", NoText, "error 1") }

\* Their events: two completions that differ in source_timestamp.
ConcurrentEvents == { Envelope(CompletedMessage(ts)) : ts \in 1..2 }

\* Two dispatch calls on a dispatcher built with any pair of those handlers,
\* each with its own event, neither begun.
InitConcurrent ==
    /\ handlers \in ConcurrentHandlers \X ConcurrentHandlers
    /\ query_engine = QueryEngineUp
    /\ sink = << >>
    /\ queried = {}
    /\ \E ev \in ConcurrentEvents :
         /\ cloud_event = ev
         /\ pc = Entered(ev).pc
         /\ timestamp = Entered(ev).timestamp
         /\ decoded_message = Entered(ev).decoded_message
         /\ idx = Entered(ev).idx
         /\ matcher_errors = Entered(ev).matcher_errors
         /\ matched_handlers = Entered(ev).matched_handlers
         /\ handler_errors = Entered(ev).handler_errors
         /\ calls = Entered(ev).calls
         /\ response = Entered(ev).response
         /\ escaped = Entered(ev).escaped
    /\ parked \in { Entered(ev) : ev \in ConcurrentEvents }

SpecConcurrent == InitConcurrent /\ [][NextConcurrent]_vars

\* --------------------------------------------------- encoded envelope events
\* An envelope whose message.data is the text `data`.
TextEnvelope(data) ==
    [Event("mapping", "mapping", "text", TRUE, TRUE, TRUE, NullValue) EXCEPT !.data = data]

\* The tests' encoding, base64.b64encode(json.dumps(P).encode("utf-8")).decode("utf-8"),
\* and the same with json.dumps(P, ensure_ascii=False).
Encoded(j, ascii) == b64encode(utf8_encode(dumps(j, ascii)))

\* The code points of payload, source_timestamp and 2024-01-01T00:00:00Z.
PayloadKey == << 112, 97, 121, 108, 111, 97, 100 >>
SourceTimestampKey ==
    << 115, 111, 117, 114, 99, 101, 95, 116, 105, 109, 101, 115, 116, 97, 109, 112 >>
IsoText ==
    << 50, 48, 50, 52, 45, 48, 49, 45, 48, 49, 84, 48, 48, 58, 48, 48, 58, 48, 48, 90 >>
Entry(k, v) == [k |-> k, v |-> v]

\* Payloads: empty and nested objects, an array, the scalars, and strings with
\* a quote, a backslash, control characters, DEL and characters of two, three
\* and four UTF-8 bytes (e-acute, the euro sign, U+1F600).
RoundTripPayloads ==
    { JObj(<< >>), JNull, JBool(TRUE), JInt(0), JInt(0 - 12), JInt(305),
      JStr(<< >>), JStr(<< 97, 34, 92, 10, 9, 31 >>), JStr(<< 233 >>),
      JStr(<< 8364, 127, 47 >>), JStr(<< 128512, 98 >>),
      JArr(<< JInt(1), JStr(<< 120 >>), JArr(<< >>), JNull >>),
      JObj(<< Entry(<< 233 >>, JObj(<< Entry(<< 107 >>, JBool(FALSE)) >>)),
              Entry(<< >>, JStr(<< 92, 117 >>)) >>) }

\* Messages with payload and source_timestamp, in either order and with a
\* further key.
RoundTripMessages ==
    { JObj(<< Entry(PayloadKey, p), Entry(SourceTimestampKey, JStr(IsoText)) >>) :
        p \in RoundTripPayloads }
    \cup { JObj(<< Entry(SourceTimestampKey, JStr(IsoText)), Entry(<< 120 >>, JInt(7)),
                   Entry(PayloadKey, p) >>) : p \in {JObj(<< >>), JStr(<< 233 >>)} }
RoundTrips ==
    { [message |-> j, event |-> TextEnvelope(Encoded(j, ascii))] :
        j \in RoundTripMessages, ascii \in BOOLEAN }

\* Texts that are no encoding of a message: an empty text, a text cut short,
\* bytes cut short, bytes that are no UTF-8 (a stray lead byte, an overlong form,
\* a surrogate), JSON null, and a message with whitespace around it and line
\* breaks inside the base64 text.
DamagedEvents ==
    LET j == JObj(<< Entry(PayloadKey, JStr(<< 233 >>)),
                     Entry(SourceTimestampKey, JStr(IsoText)) >>)
        text == Encoded(j, FALSE)
        bytes == utf8_encode(dumps(j, FALSE))
    IN  { TextEnvelope(<< >>),
          TextEnvelope(SubSeq(text, 1, Len(text) - 1)),
          TextEnvelope(SubSeq(text, 1, Len(text) - 3)),
          TextEnvelope(b64encode(SubSeq(bytes, 1, Len(bytes) - 1))),
          TextEnvelope(b64encode(SubSeq(bytes, 1, 14))),
          TextEnvelope(b64encode(<< 255 >>)),
          TextEnvelope(b64encode(<< 34, 192, 128, 34 >>)),
          TextEnvelope(b64encode(<< 34, 237, 160, 128, 34 >>)),
          TextEnvelope(b64encode(dumps(JNull, TRUE))),
          TextEnvelope(b64encode(<< 32, 10 >> \o bytes \o << 13, 9 >>)),
          TextEnvelope(SubSeq(text, 1, 4) \o << 10 >> \o SubSeq(text, 5, Len(text))) }

\* Handlers that do not read the message.
DecodeHandlers ==
    { Handler("MockHandler", "false", "ok", NoText, ""),
      Handler("FailingMatcherHandler", "raise", "ok", NoText, "error 1"),
      Handler("MockHandler", "true", "bad_request", Text("bad input 1"), ""),
      Handler("MockHandler", "true", "internal", NoText, "error 1") }

\* One dispatch of an envelope event given character by character.
InitDecode ==
    /\ handlers \in SeqsUpTo(DecodeHandlers, MaxHandlers)
    /\ cloud_event \in { r.event : r \in RoundTrips } \cup DamagedEvents
    /\ query_engine = QueryEngineUp
    /\ InitLocals

SpecDecode == InitDecode /\ [][Next]_vars

\* The whole of dispatch as one function of the handler list, for a decoded
\* message m and a sink that accepts every point: the two loops, then the
\* response computed from what they have accumulated.
RECURSIVE AccumulateMatch(_, _, _, _)
AccumulateMatch(hs, m, i, acc) ==
    IF i > Len(hs) THEN acc
    ELSE LET r == match(hs[i], m)
         IN  AccumulateMatch(hs, m, i + 1,
                 [me |-> MatcherErrorsAfter(acc.me, hs[i], r), mh |-> MatchedAfter(acc.mh, i, r)])

RECURSIVE AccumulateHandle(_, _, _, _, _, _)
AccumulateHandle(hs, m, qe, mh, k, he) ==
    IF k > Len(mh) THEN he
    ELSE AccumulateHandle(hs, m, qe, mh, k + 1,
             HandlerErrorsAfter(he, hs[mh[k]], handle(hs[mh[k]], m, qe, NoFault)))

AccumulatingResponse(hs, m, qe) ==
    LET a == AccumulateMatch(hs, m, 1, [me |-> << >>, mh |-> << >>])
        he == AccumulateHandle(hs, m, qe, a.mh, 1, << >>)
    IN  DetermineResponse(a.me, he, a.mh)

\* ------------------------------------------- the simple dispatcher (src/src)
\* src/src/dispatcher.py: the dispatcher without decoder and without failure
\* gauges.  match and handle receive the CloudEvent itself; dispatch returns at
\* the first failure.
\* A loop that never returns early.
ShortCircuitNever(outcome) == FALSE

\* The outcomes of match and handle at which dispatch returns at once.
ShortCircuit(outcome) == outcome \in {"raise", "bad_request", "internal"}

\* Every failure answered with 500.
FailureResponseAlways500(out) == make_response(InternalServerErrorBody, 500)

\* The response of the two except clauses around handler.handle.
FailureResponse(out) ==
    IF out.result = "bad_request" THEN make_response(out.message, 400)
    ELSE make_response(InternalServerErrorBody, 500)

\* Entry of dispatch: matched_handlers = []; a for-loop over an empty handler
\* list runs no iteration and `if not matched_handlers` returns 204.
SimpleDispatch ==
    /\ pc = "simple_start"
    /\ matched_handlers' = << >>
    /\ idx' = 1
    /\ IF handlers = << >>
         THEN pc' = "done" /\ response' = make_response(EmptyBody, 204)
         ELSE pc' = "simple_match" /\ UNCHANGED response
    /\ UNCHANGED <<parked, handlers, cloud_event, query_engine, timestamp, decoded_message,
                   matcher_errors, handler_errors, sink, calls, queried, escaped>>

\* One iteration of `for handler in self.handlers`: an exception of match
\* returns 500; after the last handler, 204 when none matched.
SimpleMatch ==
    /\ pc = "simple_match"
    /\ LET h == handlers[idx]
           r == match(h, cloud_event.body)
           mh == MatchedAfter(matched_handlers, idx, r)
       IN  /\ matched_handlers' = mh
           /\ calls' = Append(calls, Call("match", idx, h.cls, r, NoText))
           /\ IF ShortCircuit(r)
                THEN /\ pc' = "done"
                     /\ response' = make_response(InternalServerErrorBody, 500)
                     /\ UNCHANGED idx
              ELSE IF idx < Len(handlers)
                THEN /\ idx' = idx + 1
                     /\ pc' = "simple_match"
                     /\ UNCHANGED response
              ELSE IF mh = << >>
                THEN /\ pc' = "done"
                     /\ response' = make_response(EmptyBody, 204)
                     /\ UNCHANGED idx
              ELSE /\ idx' = 1
                   /\ pc' = "simple_execute"
                   /\ UNCHANGED response
    /\ UNCHANGED <<parked, handlers, cloud_event, query_engine, timestamp, decoded_message,
                   matcher_errors, handler_errors, sink, queried, escaped>>

\* One iteration of `for handler in matched_handlers`: HandlerBadRequestError
\* returns 400 with its message, any other exception 500; after the last
\* handler, 204.
SimpleExecute ==
    /\ pc = "simple_execute"
    /\ LET i == matched_handlers[idx]
           h == handlers[i]
           out == handle(h, cloud_event.body, query_engine, NoFault)
       IN  /\ sink' = sink \o out.points
           /\ queried' = queried \cup out.queries
           /\ calls' = Append(calls, Call("handle", i, h.cls, out.result, out.message))
           /\ IF ShortCircuit(out.result)
                THEN /\ pc' = "done"
                     /\ response' = FailureResponse(out)
                     /\ UNCHANGED idx
              ELSE IF idx < Len(matched_handlers)
                THEN /\ idx' = idx + 1
                     /\ pc' = "simple_execute"
                     /\ UNCHANGED response
              ELSE /\ pc' = "done"
                   /\ response' = make_response(EmptyBody, 204)
                   /\ UNCHANGED idx
    /\ UNCHANGED <<parked, handlers, cloud_event, query_engine, timestamp, decoded_message,
                   matcher_errors, matched_handlers, handler_errors, escaped>>

NextSimple == SimpleDispatch \/ SimpleMatch \/ SimpleExecute

\* One dispatch of a completion event by a simple dispatcher built with any
\* list of test handlers.
InitSimple ==
    /\ handlers \in SeqsUpTo(TestHandlers, MaxHandlers)
    /\ cloud_event \in { Envelope(CompletedMessage(ts)) : ts \in 1..MaxTime }
    /\ query_engine = QueryEngineUp
    /\ pc = "simple_start"
    /\ timestamp = 0
    /\ decoded_message = None
    /\ idx = 1
    /\ matcher_errors = << >>
    /\ matched_handlers = << >>
    /\ handler_errors = << >>
    /\ sink = << >>
    /\ calls = << >>
    /\ queried = {}
    /\ response = NoResponse
    /\ escaped = ""
    /\ parked = NoDispatch

SpecSimple == InitSimple /\ [][NextSimple]_vars

\* ---------------------------------------------- inputs: concrete handlers
\* Most required variables one event leaves out.
MaxMissing == 2

RequireSteps(cls) == { Steps(cls)[k] : k \in { j \in 1..Len(Steps(cls)) : Steps(cls)[j].op = "require" } }

\* The variables the handle method of the class reads, and the tables it queries.
ReadKeys(cls) ==
    { s.key : s \in RequireSteps(cls) }
    \cup { s.container : s \in { r \in RequireSteps(cls) : r.container # "" } }
QueriedTables(cls) ==
    UNION { Steps(cls)[k].tables : k \in 1..Len(Steps(cls)) }

\* payload.variables with the keys of D left out or falsy, as f says.
Variables(D, f) == [k \in VarKeys |-> IF k \in D THEN f[k] ELSE "set"]

VariableMaps(cls) ==
    { Variables(D, f) :
        D \in { X \in SUBSET ReadKeys(cls) : Cardinality(X) <= MaxMissing },
        f \in [ReadKeys(cls) -> {"absent", "falsy"}] }

\* The pipeline_uuid of the events sent to a handler of the class.
EventPipeline(cls) == IF Pipeline(cls) = "" THEN "pipesv2_approval" ELSE Pipeline(cls)

\* Completion events of the handler's pipeline; source_timestamp 0 is a text
\* datetime.fromisoformat rejects.
CompletionEvents(cls) ==
    { Envelope(PipelineMessage(EventPipeline(cls), "COMPLETED", v, ts)) :
        v \in VariableMaps(cls), ts \in 0..MaxTime }

\* Events of other shapes: another status, a payload that is null or a text,
\* variables that are absent or null, no payload, a JSON scalar, the direct form.
OtherEvents(cls) ==
    { Envelope(PipelineMessage(EventPipeline(cls), "RUNNING", AllSet, 1)),
      Envelope(Message("dict", TRUE, "null", "", "", "absent", AllSet, TRUE, 1)),
      Envelope(Message("dict", TRUE, "str", "", "", "absent", AllSet, TRUE, 1)),
      Envelope(Message("dict", TRUE, "mapping", EventPipeline(cls), "COMPLETED",
                       "absent", AllSet, TRUE, 1)),
      Envelope(Message("dict", TRUE, "mapping", EventPipeline(cls), "COMPLETED",
                       "null", AllSet, TRUE, 1)),
      Envelope(NoPayloadData), Envelope(ScalarValue), Envelope(NullValue),
      Direct(PipelineMessage(EventPipeline(cls), "COMPLETED", AllSet, 1)),
      Direct(Message("dict", TRUE, "null", "", "", "absent", AllSet, TRUE, 1)),
      Direct(Message("dict", TRUE, "str", "", "", "absent", AllSet, TRUE, 1)) }

\* The query engine: it answers, it fails every call, one table does not exist,
\* or the tables hold no rows.
QueryEngines(cls) ==
    { QueryEngineUp,
      QueryEngine(TRUE, {}, FALSE, DefaultData),
      QueryEngine(FALSE, {}, TRUE, DefaultData) }
    \cup { QueryEngine(FALSE, {t}, FALSE, DefaultData) : t \in QueriedTables(cls) }

\* One dispatch by a dispatcher built with one concrete handler.
InitHandlers ==
    /\ \E cls \in ConcreteClasses :
         /\ handlers = << Handler(cls, "code", "code", NoText, "") >>
         /\ cloud_event \in CompletionEvents(cls) \cup OtherEvents(cls)
         /\ query_engine \in QueryEngines(cls)
    /\ InitLocals

SpecHandlers == InitHandlers /\ [][Next]_vars

\* --------------------------------------------------- inputs: metric values
\* Largest SUM of an amount column; sums range over -1..MaxSum.
MaxSum == 2
Amounts == -1..MaxSum

\* The table variables an emit step of the class computes from, in order.
ComputeArgs(cls) ==
    LET emits == SelectSeq(Steps(cls), LAMBDA s : s.op = "emit" /\ s.args # << >>)
    IN  IF emits = << >> THEN << >> ELSE emits[1].args

\* The tables hold sums a (the first table the class computes from, and the
\* accepted savings) and b (the others).
SumData(cls, a, b) ==
    [DefaultData EXCEPT
       !.sums = [k \in VarKeys |->
                   IF ComputeArgs(cls) # << >> /\ k = ComputeArgs(cls)[1] THEN a ELSE b],
       !.accepted = a]

\* Historical rows of the samples: a beneficiary of last month, one of the
\* month before, and the batch beneficiary three weeks ago under its own and
\* under another id_arvo.
HistoricalSamples ==
    { {}, {HistoricalRow("m2", "c1", "a2", 45)},
      {HistoricalRow("m1", "c1", "a1", 21)},
      {HistoricalRow("m1", "c1", "a2", 21), HistoricalRow("m2", "c1", "a3", 45)} }

\* The classes whose values come from sums, and the data each class is run on.
RowClasses == {"NewBeneficiariesApprovalHandler", "ProvidersVolumeRatioWranglingHandler",
               "SavingsEvaluationHandler", "SelectedSavingsApprovalHandler",
               "UnsentClaimsHandler", "PipelineRunHandler"} \cup BaseClasses
\* Most rows of one table.
MaxRows == 2
SubsetsUpTo(S, n) == {X \in SUBSET S : Cardinality(X) <= n}

\* Rows of a savings table: two of one agent and one of another.
SavingsRows ==
    { SavingsRow(1, "agent1", 1), SavingsRow(2, "agent1", 2), SavingsRow(3, "agent2", 1) }
SavingsClasses == {"SavingsEvaluationHandler", "SelectedSavingsApprovalHandler"}

MetricsData(cls) ==
    IF cls \in SavingsClasses
      THEN { [DefaultData EXCEPT !.savings = r] : r \in SubsetsUpTo(SavingsRows, MaxRows) }
    ELSE IF cls \in RowClasses
      THEN { [DefaultData EXCEPT !.historical = h] : h \in HistoricalSamples }
      ELSE { SumData(cls, a, b) : a, b \in Amounts }

\* The query engines a class is run on: at most MaxMissing absent tables; the
\* tables of a class that reads rows may all be empty.
MetricsEngines(cls) ==
    { QueryEngine(FALSE, missing, empty, data) :
        missing \in {X \in SUBSET QueriedTables(cls) : Cardinality(X) <= MaxMissing},
        empty \in IF cls \in RowClasses THEN BOOLEAN ELSE {FALSE},
        data \in MetricsData(cls) }

\* The completion event of the class's pipeline, its table variables in form
\* `form`, and the same event with a null payload.
MetricsEvent(cls, form) ==
    Envelope(WithTableForm(PipelineMessage(EventPipeline(cls), "COMPLETED", AllSet, 1), form))
NullPayloadEvent == Envelope(Message("dict", TRUE, "null", "", "", "absent", AllSet, TRUE, 1))

\* A handler of the class: a base class has no match of its own and is
\* registered with a match that accepts the event.
MetricHandler(cls) ==
    IF cls \in BaseClasses THEN Handler(cls, "true", "code", NoText, "")
    ELSE Handler(cls, "code", "code", NoText, "")

\* One dispatch by a dispatcher built with one handler: a well-formed completion
\* event with any form of the table references, any set of at most MaxMissing
\* absent tables and any sums, or the event with a null payload.
InitMetrics ==
    /\ \E cls \in ConcreteClasses \cup BaseClasses :
         /\ handlers = << MetricHandler(cls) >>
         /\ \/ /\ cloud_event \in { MetricsEvent(cls, form) : form \in RefForms }
               /\ query_engine \in MetricsEngines(cls)
            \/ /\ cloud_event = NullPayloadEvent
               /\ query_engine = QueryEngineUp
    /\ InitLocals

SpecMetrics == InitMetrics /\ [][Next]_vars

\* ------------------------------------------------ inputs: new beneficiaries
\* Rows of the batch tables: two beneficiaries, two categories, two id_arvo,
\* and rows without id_matricula or without id_arvo.
BatchRows ==
    { BatchRow("m1", "c1", "a1"), BatchRow("m2", "c1", "a2"), BatchRow("m1", "c2", "a2"),
      BatchRow("m2", "c2", "a1"), BatchRow(Null, "c1", "a1"), BatchRow("m2", "c1", Null) }

\* Rows of the historical tables: under a batch id_arvo, under another one,
\* without one, at the edge of the window and outside it.
HistoricalRows ==
    { HistoricalRow("m1", "c1", "a1", 30), HistoricalRow("m1", "c1", "a3", 30),
      HistoricalRow("m2", "c1", "a3", 90), HistoricalRow("m2", "c1", "a3", 91),
      HistoricalRow("m1", "c2", "a3", 30), HistoricalRow("m2", "c1", Null, 30),
      HistoricalRow("m2", "c2", "a2", 30) }

\* One dispatch of the approval pipeline's completion event by a dispatcher
\* built with NewBeneficiariesApprovalHandler, over any batch and historical
\* rows, with the historical tables present or one of them absent, or of the
\* event with a null payload.
InitBeneficiaries ==
    /\ handlers = << MetricHandler("NewBeneficiariesApprovalHandler") >>
    /\ \/ /\ cloud_event = MetricsEvent("NewBeneficiariesApprovalHandler",
                                         "project.dataset.table")
          /\ \E b \in SubsetsUpTo(BatchRows, MaxRows), h \in SubsetsUpTo(HistoricalRows, MaxRows),
                missing \in {{}, {ComputeArgs("NewBeneficiariesApprovalHandler")[3]}} :
                query_engine = QueryEngine(FALSE, missing, FALSE,
                                   [DefaultData EXCEPT !.batch = b, !.historical = h])
       \/ /\ cloud_event = NullPayloadEvent
          /\ query_engine = QueryEngineUp
    /\ InitLocals

SpecBeneficiaries == InitBeneficiaries /\ [][Next]_vars

\* -------------------------------------------------- inputs: unsent claims
\* Rows of the two historical claims tables: inside the fallback window,
\* ingested after its end, ingested before its start, and without value.
ClaimRows ==
    { ClaimRow("a1", 1, 1, 60), ClaimRow("a2", 1, 2, 60), ClaimRow("a3", 2, 1, 10),
      ClaimRow("a1", 1, 1, TwentyMinutes + TwoDays + 1), ClaimRow("a4", 0, 0, 60) }

\* Rows of the internal validation table.
ValidationRows ==
    { ValidationRow("a2", "f1", "SENT_FOR_VALIDATION", 60),
      ValidationRow("a1", "f1", "APPROVED", 60),
      ValidationRow("a1", "f2", "EXPIRED", 10) }

\* Rows of the submitted-claims table: of another submission run (ingested
\* after the fallback instant, or a second row of the same claim), and of the
\* event's run.
SubmittedRows ==
    { SubmittedRow(1, "other", "a1", "SUBMITTED_SUCCESS", 1, 1, 1, 5),
      SubmittedRow(2, "other", "a1", "SUBMITTED_SUCCESS", 1, 1, 1, 100),
      SubmittedRow(3, "other", "a2", "SUBMISSION_ERROR", 1, 2, 1, 100),
      SubmittedRow(4, RunId, "a1", "SUBMITTED_SUCCESS", 1, 1, 1, 30) }

\* An event whose message is not a JSON object.
ScalarEvent == Envelope(Message("scalar", FALSE, "mapping", "", "", "absent", AllSet, FALSE, 1))

\* One dispatch of the submission pipeline's completion event by a dispatcher
\* built with UnsentClaimsHandler, over any rows of the four tables, or of an
\* event whose message is a scalar.
InitUnsentClaims ==
    /\ handlers = << MetricHandler("UnsentClaimsHandler") >>
    /\ \/ /\ cloud_event = MetricsEvent("UnsentClaimsHandler", "project.dataset.table")
          /\ \E c \in SubsetsUpTo(ClaimRows, MaxRows), v \in SubsetsUpTo(ValidationRows, MaxRows),
                s \in SubsetsUpTo(SubmittedRows, MaxRows) :
                query_engine = QueryEngine(FALSE, {}, FALSE,
                    [DefaultData EXCEPT !.claims = c, !.validation = v, !.submitted = s])
       \/ /\ cloud_event = ScalarEvent
          /\ query_engine = QueryEngineUp
    /\ InitLocals

SpecUnsentClaims == InitUnsentClaims /\ [][Next]_vars

\* ------------------------------------------------------------------ claims
\* What the invocation log says happened, independently of the dispatcher's lists.
CallsOf(op) == SelectSeq(calls, LAMBDA c : c.op = op)
CallsWith(op, outcome) == SelectSeq(calls, LAMBDA c : c.op = op /\ c.outcome = outcome)
Indices(cs) == [k \in 1..Len(cs) |-> cs[k].handler]
IsPrefix(s, t) == Len(s) <= Len(t) /\ SubSeq(t, 1, Len(s)) = s
GaugeNames == {"handler_matcher_failure", "handler_execution_failure"}
SinkRaisedOnGauge == \E k \in 1..Len(calls) : calls[k].op \in GaugeNames /\ calls[k].outcome = "raise"
Count(seq, P(_)) == Len(SelectSeq(seq, P))

\* The event is one the decoder turns into a message (spec 4.1, cases A and B).
Decodable ==
    /\ cloud_event.data_kind = "mapping"
    /\ \/ /\ cloud_event.message_kind = "mapping" /\ cloud_event.enc = "str"
          /\ cloud_event.b64ok /\ cloud_event.utf8ok /\ cloud_event.jsonok
          /\ cloud_event.body.kind # "null"
       \/ /\ \/ cloud_event.message_kind = "absent"
             \/ cloud_event.message_kind = "mapping" /\ cloud_event.enc \in {"absent", "empty"}
          /\ cloud_event.body.has_payload /\ cloud_event.body.has_source_timestamp

\* The event is one for which the decoder signals a decode failure (spec 4.1): an
\* envelope whose text is bad base64, bad UTF-8, malformed JSON or the JSON null,
\* or a data container that is neither an envelope nor a direct payload.
DecodeFailure ==
    /\ cloud_event.data_kind = "mapping"
    /\ \/ /\ cloud_event.message_kind = "mapping" /\ cloud_event.enc = "str"
          /\ \/ ~cloud_event.b64ok \/ ~cloud_event.utf8ok \/ ~cloud_event.jsonok
             \/ cloud_event.body.kind = "null"
       \/ /\ \/ cloud_event.message_kind = "absent"
             \/ cloud_event.message_kind = "mapping" /\ cloud_event.enc \in {"absent", "empty"}
          /\ ~(cloud_event.body.has_payload /\ cloud_event.body.has_source_timestamp)

\* The status the recorded failures call for (spec 4.3 step 4).
ExpectedStatus ==
    IF CallsWith("match", "raise") # << >> THEN 500
    ELSE IF CallsWith("handle", "bad_request") # << >> THEN 400
    ELSE IF CallsWith("handle", "internal") # << >> THEN 500
    ELSE 204

\* C1: for a decodable event and any handlers, dispatch ends with one response of
\* status 204, 400 or 500, and no exception leaves it, also when the sink fails.
C1_DispatchTotal ==
    Decodable =>
        /\ pc # "raised"
        /\ pc = "done" => response.status \in {204, 400, 500}
        /\ pc # "done" => ENABLED Next

\* C2: the status of the response is the precedence function of the failures that
\* happened: a raised match gives 500; else a bad request gives 400 with the
\* message of the first bad-request handler in execution order; else an internal
\* error gives 500; else 204 (also when nothing matched).
C2_Precedence ==
    (pc = "done" /\ Decodable) =>
        /\ response.status = ExpectedStatus
        /\ response.status = 400 =>
             response.body = CallsWith("handle", "bad_request")[1].message

\* C2 witness: a 400 whose first bad request came after an internal error of an
\* earlier handler.
C2_Witness ==
    /\ pc = "done"
    /\ response.status = 400
    /\ \E k \in 1..Len(calls) :
         /\ calls[k].op = "handle" /\ calls[k].outcome = "internal"
         /\ \E l \in (k + 1)..Len(calls) :
              calls[l].op = "handle" /\ calls[l].outcome = "bad_request"

\* C3: the handle calls of one dispatch are the handlers whose match returned
\* true, in registration order, each once; no failure of a match or of a handle
\* keeps a later matched handler from being handled.
C3_HandleOrder ==
    /\ IsPrefix(Indices(CallsOf("handle")), Indices(CallsWith("match", "true")))
    /\ IsPrefix(Indices(CallsOf("match")), [i \in 1..Len(handlers) |-> i])
    /\ (pc \in {"emit_matcher", "emit_handler", "respond"}
          \/ (pc = "done" /\ Decodable) \/ SinkRaisedOnGauge) =>
         /\ Indices(CallsOf("match")) = [i \in 1..Len(handlers) |-> i]
         /\ Indices(CallsOf("handle")) = Indices(CallsWith("match", "true"))

\* C3 witness: a handler was handled after an earlier handler's handle raised.
C3_Witness ==
    /\ pc = "done"
    /\ \E k \in 1..Len(calls) :
         /\ calls[k].op = "handle" /\ calls[k].outcome # "ok"
         /\ \E l \in (k + 1)..Len(calls) :
              calls[l].op = "handle" /\ calls[l].outcome = "ok"

\* C4: when the decoder fails on an event (any event that is not decodable),
\* dispatch returns 400 "Bad Request: Invalid message format" at once: no match,
\* no handle, no metric.
C4_DecodeFailureIs400 ==
    (pc # "start" /\ ~Decodable) =>
        /\ pc = "done"
        /\ response = make_response(InvalidFormatBody, 400)
        /\ calls = << >>
        /\ sink = << >>

\* C4 witness: a decode failure the decoder signals with None, answered with the
\* 400 while handlers are registered and none of them was called.
C4_Witness ==
    /\ pc = "done"
    /\ DecodeFailure
    /\ response = make_response(InvalidFormatBody, 400)
    /\ calls = << >>
    /\ ~cloud_event.utf8ok
    /\ handlers # << >>

\* C5: decode_message never raises: it returns the message or None.
C5_DecodeNeverRaises ==
    pc # "start" => decoded_message.kind # "raise"

\* C6: by the time the response is returned the dispatcher has emitted one
\* handler_matcher_failure gauge per handler whose match raised and one
\* handler_execution_failure gauge per handler whose handle raised, each of value 1
\* with the one label handler_class; with no failure it has emitted none.
C6_FailureGauges ==
    /\ \A k \in 1..Len(sink) :
         sink[k].name \in GaugeNames =>
           /\ sink[k].value = One
           /\ \E c \in {h.cls : h \in {handlers[i] : i \in 1..Len(handlers)}} :
                sink[k].labels = {<<"handler_class", c>>}
    /\ (pc = "done" /\ Decodable) =>
         \A c \in {handlers[i].cls : i \in 1..Len(handlers)} :
           /\ Count(sink, LAMBDA p : p.name = "handler_matcher_failure"
                                     /\ p.labels = {<<"handler_class", c>>})
                = Count(calls, LAMBDA e : e.op = "match" /\ e.outcome = "raise" /\ e.cls = c)
           /\ Count(sink, LAMBDA p : p.name = "handler_execution_failure"
                                     /\ p.labels = {<<"handler_class", c>>})
                = Count(calls, LAMBDA e : e.op = "handle" /\ e.outcome # "ok" /\ e.cls = c)

\* C6 witness: a response after a matcher failure and a bad-request failure.
C6_Witness ==
    /\ pc = "done"
    /\ CallsWith("match", "raise") # << >>
    /\ CallsWith("handle", "bad_request") # << >>

\* C7: when the sink fails while the dispatcher emits a failure gauge, dispatch
\* still ends with the outcome the recorded failures call for.
C7_SinkFaultKeepsOutcome ==
    SinkRaisedOnGauge => (pc = "done" /\ response.status = ExpectedStatus)

\* C8: every point emitted during a dispatch, by a handler or by the dispatcher,
\* carries the source_timestamp of the event.
C8_PointsCarrySourceTimestamp ==
    (decoded_message.kind = "value" /\ decoded_message.value.kind = "dict"
       /\ decoded_message.value.has_source_timestamp) =>
        \A k \in 1..Len(sink) : sink[k].timestamp = SourceTimestamp(decoded_message.value)

\* C9: the body of a 500 is the one generic text whatever the texts of the
\* exceptions were, and the body of a 400 of a handler is that handler's message.
C9_GenericBody ==
    pc = "done" =>
        /\ response.status = 500 => response.body = InternalServerErrorBody
        /\ (response.status = 400 /\ Decodable) =>
             \E k \in 1..Len(calls) :
               /\ calls[k].op = "handle" /\ calls[k].outcome = "bad_request"
               /\ response.body = calls[k].message

\* C9 witness: a 500 after exceptions with two different texts.
C9_Witness ==
    /\ pc = "done"
    /\ response.status = 500
    /\ \E i, j \in 1..Len(handlers) :
         /\ handlers[i].text = "error 1" /\ handlers[j].text = "error 2"
         /\ handlers[i].match = "raise"
         /\ handlers[j].match = "true" /\ handlers[j].handle = "internal"

\* The concrete class of the one registered handler.
TheClass == handlers[1].cls

\* The required variables of payload.variables the event leaves out (absent or
\* falsy), as the keys the handle method hands to variables.get.
MissingLookups(m) ==
    { s.lookup : s \in { r \in RequireSteps(TheClass) :
                           r.container = "" /\ VarState(m, "", r.key) # "set" } }

\* A completion event of the handler's pipeline, well formed but for variables it
\* leaves out.
CompletionEventMissingVariable ==
    /\ handlers # << >> /\ TheClass \in ConcreteClasses
    /\ decoded_message.kind = "value"
    /\ LET m == decoded_message.value
       IN  /\ m.kind = "dict" /\ m.has_payload /\ m.payload_kind = "mapping"
           /\ m.pipeline_uuid = EventPipeline(TheClass) /\ m.status = "COMPLETED"
           /\ m.variables_kind \in {"mapping", "absent"}
           /\ MissingLookups(m) # {}

\* C10: when an event leaves out a required variable, handle raises
\* HandlerBadRequestError whose message names a key that was looked up and is
\* missing, no metric of the handler is emitted, and dispatch returns 400 with that
\* message; when the message names partner it is the exact partner text.
C10_RequiredVariableMissing ==
    (CompletionEventMissingVariable /\ pc = "done") =>
        LET hc == CallsOf("handle")
        IN  /\ Len(hc) = 1
            /\ hc[1].outcome = "bad_request"
            /\ hc[1].message.key \in MissingLookups(decoded_message.value)
            /\ hc[1].message.key = "partner" =>
                 hc[1].message = Fmt("Missing required '", "partner", "' variable in payload.")
            /\ \A k \in 1..Len(sink) : sink[k].name \in GaugeNames
            /\ response = make_response(hc[1].message, 400)

\* ---- table references (src/handlers/processable_base.py ensure_full_table_ref)
\* The message the dispatch decoded.
TheMessage == decoded_message.value

\* C11: every table reference handed to the query engine has the three parts
\* project.dataset.table; a dataset.table reference of the payload has been
\* prefixed with the data project, a project.dataset.table one is unchanged.
C11_FullyQualified ==
    \A r \in queried :
        /\ Len(r) = 3
        /\ TheMessage.table_form = "dataset.table" =>
               r = << DataProject >> \o TableRef("dataset.table", r[Len(r)])
        /\ TheMessage.table_form = "project.dataset.table" =>
               r = TableRef("project.dataset.table", r[Len(r)])

\* ---- pre-filter metrics (src/handlers/pre_filtered_approval.py)
\* The dispatch has ended for the well-formed completion event of the one
\* registered handler, of class cls, every table exists and the sink accepted
\* every point.
SinkRaisedInHandle ==
    \E k \in 1..Len(calls) : calls[k].op = "create_time_series"
CompletedFor(cls) ==
    /\ pc = "done" /\ TheClass = cls
    /\ \E form \in RefForms : cloud_event = MetricsEvent(cls, form)
    /\ ~SinkRaisedInHandle
AllTablesExist == query_engine.missing = {} /\ ~query_engine.fails

\* The sums of the two tables of the approval pipeline's pre-filter handler.
SumU == TableSum(query_engine, "unprocessable_claims_input_table")
SumP == TableSum(query_engine, "processable_claims_input_table")
ApprovedTrue == {Partner, <<"approved", "true">>}

\* C12: for a COMPLETED pipesv2_approval event whose unprocessable table sums
\* to U and whose processable table sums to P, U + P > 0, the pre-filter
\* handler emits total = U and relative = U / (U + P), both with the labels
\* partner and approved "true", and dispatch returns 204.
C12_PreFilterApprovalValues ==
    (CompletedFor("PreFilteredApprovalHandler") /\ AllTablesExist /\ SumU + SumP > 0) =>
        /\ sink = << Point("claims/pipeline/filtered_pre/vl_pago/total", float(SumU),
                           ApprovedTrue, SourceTimestamp(TheMessage)),
                     Point("claims/pipeline/filtered_pre/vl_pago/relative",
                           Div(SumU, SumU + SumP), ApprovedTrue,
                           SourceTimestamp(TheMessage)) >>
        /\ response.status = 204

PreFilterClasses == {"PreFilteredApprovalHandler", "PreFilteredWranglingHandler"}

\* C13: for a COMPLETED pre-filter event whose unprocessable table does not
\* exist while the processable one does, handle raises no error, the two
\* points total = 0.0 and relative = 0.0 are emitted and dispatch returns 204.
C13_PreFilterMissingTable ==
    \A cls \in PreFilterClasses :
        (/\ CompletedFor(cls) /\ ~query_engine.fails
         /\ query_engine.missing = {ComputeArgs(cls)[1]}) =>
            /\ CallsWith("handle", "ok") # << >>
            /\ Len(sink) = 2
            /\ sink[1].name = "claims/pipeline/filtered_pre/vl_pago/total"
            /\ sink[1].value = Zero
            /\ sink[2].name = "claims/pipeline/filtered_pre/vl_pago/relative"
            /\ sink[2].value = Zero
            /\ response.status = 204

\* ---- optional tables (spec P5)
ProcessableClasses == {"ProcessableApprovalHandler", "ProcessableWranglingHandler"}
NewEntityClasses == {"NewBeneficiariesApprovalHandler", "NewProvidersBaseHandler"}
VolumeRatioClasses == {"ProvidersVolumeRatioWranglingHandler",
                       "BeneficiariesVolumeRatioBaseHandler"}

\* The tables a class treats as optional: both tables of the processable
\* handlers, the excluded table of the post-filtered handler, the historical
\* tables of the new-entity and volume-ratio handlers.
OptionalTables(cls) ==
    CASE cls \in ProcessableClasses -> {ComputeArgs(cls)[1], ComputeArgs(cls)[2]}
      [] cls = "PostFilteredSelectionHandler" -> {ComputeArgs(cls)[1]}
      [] cls \in NewEntityClasses \cup VolumeRatioClasses ->
           {ComputeArgs(cls)[3], ComputeArgs(cls)[4]}
      [] OTHER -> {}

\* The dispatch has ended for a well-formed event of class cls, with optional
\* tables, and only those, missing.
OptionalTableMissing(cls) ==
    /\ CompletedFor(cls) /\ ~query_engine.fails
    /\ query_engine.missing # {}
    /\ query_engine.missing \subseteq OptionalTables(cls)

\* The sum of table t with 0 in place of the sum of a missing table.
SumOrZero(t) == IF t \in query_engine.missing THEN 0 ELSE TableSum(query_engine, t)

\* C14: when an optional table does not exist, handle completes without error
\* and the emitted values are the documented defaults: the processable and
\* post-filtered values computed with 0.0 as the sum of the missing table, and
\* 1.0 for the new-beneficiaries, new-providers and volume-ratio metrics when
\* historical tables are missing.
C14_OptionalTableDefault ==
    \A cls \in ConcreteClasses \cup BaseClasses :
        OptionalTableMissing(cls) =>
            /\ CallsWith("handle", "ok") # << >>
            /\ response.status = 204
            /\ cls \in ProcessableClasses =>
                 LET p == SumOrZero(ComputeArgs(cls)[1])
                     u == SumOrZero(ComputeArgs(cls)[2])
                 IN  /\ sink # << >> /\ sink[1].value = float(p)
                     /\ p + u > 0 => Len(sink) = 2 /\ sink[2].value = Div(p, p + u)
            /\ cls = "PostFilteredSelectionHandler" =>
                 /\ Len(sink) = 2
                 /\ sink[1].value = Zero /\ sink[2].value = Zero
            /\ cls = "NewBeneficiariesApprovalHandler" =>
                 /\ \A k \in 1..Len(sink) : sink[k].value = One
                 /\ {<<"category", c>> : c \in batch_categories_query(Rows(query_engine, "batch"))}
                      = {l \in UNION {sink[k].labels : k \in 1..Len(sink)} : l[1] = "category"}
            /\ cls \in VolumeRatioClasses \cup {"NewProvidersBaseHandler"} =>
                 Len(sink) = 1 /\ sink[1].value = One

\* A processable dispatch whose processable table is missing, both sums being
\* positive, has emitted a zero total and a zero relative value.
C14_Witness ==
    /\ OptionalTableMissing("ProcessableApprovalHandler")
    /\ query_engine.missing = {"processable_claims_input_table"}
    /\ query_engine.data.sums["processable_claims_input_table"] > 0
    /\ query_engine.data.sums["unprocessable_claims_input_table"] > 0
    /\ Len(sink) = 2 /\ sink[1].value = Zero /\ sink[2].value = Zero

\* ---- required tables (spec 4.4)
\* The tables a class requires: the batch tables of the new-entity and
\* volume-ratio handlers, the savings table of the post-filtered handler.
RequiredTables(cls) ==
    CASE cls \in NewEntityClasses \cup VolumeRatioClasses ->
           {ComputeArgs(cls)[1], ComputeArgs(cls)[2]}
      [] cls = "PostFilteredSelectionHandler" -> {ComputeArgs(cls)[2]}
      [] OTHER -> {}

\* C15: when a table a handler requires does not exist, handle raises
\* HandlerBadRequestError and dispatch returns 400.
C15_RequiredTableMissing ==
    \A cls \in ConcreteClasses \cup BaseClasses :
        (/\ CompletedFor(cls) /\ ~query_engine.fails
         /\ query_engine.missing \cap RequiredTables(cls) # {}) =>
            /\ CallsWith("handle", "bad_request") # << >>
            /\ response.status = 400

\* ---- faults of the sink inside handle (spec 6)
\* C16: an error the sink raises while a handler emits a point, whatever its
\* type, leaves handle as an internal error: the dispatcher records a handler
\* execution failure and, when it returns a response for a dispatch with this
\* one handler, returns 500.
C16_SinkErrorIsInternal ==
    \A k \in 1..Len(calls) :
        calls[k].op = "create_time_series" =>
            /\ calls[k + 1].op = "handle" /\ calls[k + 1].outcome = "internal"
            /\ \E j \in 1..Len(handler_errors) :
                 /\ handler_errors[j].handler_class = calls[k].cls
                 /\ handler_errors[j].error_type = "internal_error"
            /\ (pc = "done" /\ Len(handlers) = 1) => response.status = 500

\* ---- ratios (spec P6)
\* The denominator of the ratio a class computes from two sums.
ProcessableDenominator(cls) ==
    TableSum(query_engine, ComputeArgs(cls)[1]) + TableSum(query_engine, ComputeArgs(cls)[2])
SavingsDenominator == TableSum(query_engine, "savings_input_table")
AcceptedTotal == IF query_engine.empty THEN 0 ELSE query_engine.data.accepted
PreviousCount ==
    Cardinality(previous_entities(Rows(query_engine, "historical")))

\* C17: no emitted value is infinite or NaN, and for a denominator that is not
\* strictly positive the handler emits its documented sentinel: 0.0 for the
\* processable and the post-filtered relative value, 1.0 for unsent savings and
\* for the volume ratios.
C17_ZeroDenominatorSentinel ==
    /\ \A k \in 1..Len(sink) : sink[k].value # NotANumber
    /\ \A cls \in ConcreteClasses \cup BaseClasses :
         (CompletedFor(cls) /\ AllTablesExist) =>
            /\ (cls \in ProcessableClasses /\ ProcessableDenominator(cls) <= 0) =>
                  /\ Len(sink) = 2
                  /\ sink[2].name = "claims/pipeline/processable/vl_pago/relative"
                  /\ sink[2].value = Zero
            /\ (cls = "PostFilteredSelectionHandler" /\ SavingsDenominator <= 0) =>
                  Len(sink) = 2 /\ sink[2].value = Zero
            /\ (cls = "UnsentSavingsHandler" /\ AcceptedTotal <= 0) =>
                  sink # << >> /\ \A k \in 1..Len(sink) : sink[k].value = One
            /\ (cls \in VolumeRatioClasses /\ PreviousCount = 0) =>
                  Len(sink) = 1 /\ sink[1].value = One

\* ---- unsent savings without accepted savings (src/handlers/unsent_savings.py)
\* C20: when the total of accepted savings inside the window is zero,
\* UnsentSavingsHandler emits exactly one point of
\* claims/pipeline/savings/vl_glosa_arvo/sent_over_accepted_last_2_days, with
\* value 1.0 and the labels partner and status "SUBMITTED_SUCCESS", and
\* dispatch returns 204.
C20_NoAcceptedSavings ==
    (CompletedFor("UnsentSavingsHandler") /\ AllTablesExist /\ AcceptedTotal = 0) =>
        /\ sink = << Point("claims/pipeline/savings/vl_glosa_arvo/sent_over_accepted_last_2_days",
                           One, {Partner, <<"status", "SUBMITTED_SUCCESS">>},
                           SourceTimestamp(TheMessage)) >>
        /\ response.status = 204

\* ---- new beneficiaries (src/handlers/new_beneficiaries_base.py)
\* B: the distinct non-null id_matricula of category c in the batch tables.
BatchSet(c) ==
    { r.id : r \in {x \in query_engine.data.batch : x.id # Null /\ x.categoria = c} }

\* A historical row shares its id_arvo with a batch row.
SharesIdArvo(h) ==
    \E b \in query_engine.data.batch : b.id_arvo # Null /\ b.id_arvo = h.id_arvo

\* H: the (id_matricula, category) pairs of the historical rows inside the
\* window that share no id_arvo with a batch row.
HistoricalSet ==
    { <<h.id, h.categoria>> :
        h \in {x \in query_engine.data.historical :
                  x.days_ago <= NinetyDays /\ ~SharesIdArvo(x)} }

\* The category a point is labelled with.
CategoryOf(p) == (CHOOSE l \in p.labels : l[1] = "category")[2]

NoRowOfThisRun ==
    \A r \in query_engine.data.submitted : r.submission_run_id # RunId

\* The sendable claims of the 2-day window that ends 20 minutes before
\* source_timestamp.
FallbackSendable ==
    sendable_claims(query_engine.data.claims, query_engine.data.validation, TwentyMinutes)

\* The sendable claims of the fallback window with a SUBMITTED_SUCCESS row in
\* the submitted-claims table.
FallbackSubmitted ==
    { c \in FallbackSendable :
        \E r \in query_engine.data.submitted :
            r.id_arvo = c.id_arvo /\ r.status = "SUBMITTED_SUCCESS" }

\* The share the SUBMITTED_SUCCESS point of a column must carry.
SubmittedShare(column) ==
    IF FallbackSendable = {} THEN One
    ELSE Div(SumField(FallbackSubmitted, column), SumField(FallbackSendable, column))

\* The points of the sink with the name and status SUBMITTED_SUCCESS.
SuccessPoints(name) ==
    { k \in 1..Len(sink) : /\ sink[k].name = name
                            /\ <<"status", "SUBMITTED_SUCCESS">> \in sink[k].labels }

\* The share is defined: there is no sendable claim, or their total is positive.
ShareDefined(column) ==
    FallbackSendable = {} \/ SumField(FallbackSendable, column) > 0

\* Exactly one SUBMITTED_SUCCESS point of the name, carrying the share.
OneSuccessPoint(name, column) ==
    /\ Cardinality(SuccessPoints(name)) = 1
    /\ \A k \in SuccessPoints(name) :
         ShareDefined(column) => sink[k].value = SubmittedShare(column)

\* C19: with no submitted row of the event's submission_run_id, the window ends
\* 20 minutes before source_timestamp and the SUBMITTED_SUCCESS pair is emitted:
\* 1.0 without a sendable claim in the window, otherwise the submitted share of
\* the sendable total.
C19_FallbackWindow ==
    (CompletedFor("UnsentClaimsHandler") /\ NoRowOfThisRun) =>
        /\ OneSuccessPoint("claims/pipeline/claims/vl_pago/sent_over_recv_last_2_days", "vl_pago")
        /\ OneSuccessPoint("claims/pipeline/claims/vl_info/sent_over_recv_last_2_days", "vl_info")

\* a <= b for two metric values.
FracLeq(a, b) == a.n * b.d <= b.n * a.d

\* a + b for two metric values.
FracAdd(a, b) == Frac(a.n * b.d + b.n * a.d, a.d * b.d)

\* The points of the sink with the name.
PointsNamed(name) == { k \in 1..Len(sink) : sink[k].name = name }

\* The sum of the values of a set of points of the sink.
RECURSIVE SumValues(_)
SumValues(K) ==
    IF K = {} THEN Zero
    ELSE LET k == CHOOSE x \in K : TRUE IN FracAdd(sink[k].value, SumValues(K \ {k}))

\* The percentages of a metric are shares of one total.
SharesOfOneTotal(name) ==
    /\ \A k \in PointsNamed(name) :
         sink[k].value.d > 0 /\ FracLeq(Zero, sink[k].value) /\ FracLeq(sink[k].value, One)
    /\ FracLeq(SumValues(PointsNamed(name)), One)

\* C30: with non-negative vl_pago and vl_info, every emitted perc_pago and
\* perc_info lies in [0, 1] and the percentages of all emitted statuses add up
\* to at most 1, whatever the submitted-claims table holds.
C30_SharesBounded ==
    CompletedFor("UnsentClaimsHandler") =>
        /\ SharesOfOneTotal("claims/pipeline/claims/vl_pago/sent_over_recv_last_2_days")
        /\ SharesOfOneTotal("claims/pipeline/claims/vl_info/sent_over_recv_last_2_days")

\* ---- processable handler with absent tables (src/handlers/processable_base.py)
\* The two tables of a processable class that are absent.
AbsentProcessable(cls) ==
    query_engine.missing \cap {ComputeArgs(cls)[1], ComputeArgs(cls)[2]}

\* C26: with exactly one of the two tables absent its sum counts as 0 and both
\* the total and the relative point are emitted; with both absent only the
\* total point, 0.0, is emitted.
C26_ProcessableAbsentTables ==
    \A cls \in ProcessableClasses :
        (CompletedFor(cls) /\ ~query_engine.fails) =>
            LET p == SumOrZero(ComputeArgs(cls)[1])
                u == SumOrZero(ComputeArgs(cls)[2])
            IN  /\ Cardinality(AbsentProcessable(cls)) = 1 =>
                     /\ Len(sink) = 2
                     /\ sink[1].name = "claims/pipeline/processable/vl_pago/total"
                     /\ sink[1].value = float(p)
                     /\ sink[2].name = "claims/pipeline/processable/vl_pago/relative"
                     /\ sink[2].value = (IF p + u > 0 THEN Div(p, p + u) ELSE Zero)
                /\ Cardinality(AbsentProcessable(cls)) = 2 =>
                     /\ Len(sink) = 1
                     /\ sink[1].name = "claims/pipeline/processable/vl_pago/total"
                     /\ sink[1].value = Zero

\* ---- savings handlers (src/handlers/savings_base.py,
\* src/handlers/selected_savings_approval.py)
\* The rows the savings table of the dispatch holds, and their agents.
SavingsTableRows == Rows(query_engine, "savings")
Agents == { r.agent_id : r \in SavingsTableRows }
RowsOf(a) == { r \in SavingsTableRows : r.agent_id = a }

\* The labels every point of a savings class carries.
BaseLabels(cls) ==
    IF cls = "SavingsEvaluationHandler" THEN {Partner, <<"approved", "false">>}
    ELSE {Partner, <<"source", "selected_savings">>}

\* The points of the sink with the name and the agent_id label.
AgentPoints(name, a) ==
    { k \in PointsNamed(name) : <<"agent_id", a>> \in sink[k].labels }

\* Exactly one point of the name for agent a, with the base labels and the value.
OneAgentPoint(cls, name, a, value) ==
    /\ Cardinality(AgentPoints(name, a)) = 1
    /\ \A k \in AgentPoints(name, a) :
         /\ sink[k].labels = BaseLabels(cls) \cup {<<"agent_id", a>>}
         /\ sink[k].value = value

\* C21: the savings handlers emit one group of points per agent_id of the
\* aggregation (amount and count, or amount alone), each with the base labels
\* and that agent_id; with the table absent or without rows they emit nothing,
\* handle succeeds and dispatch returns 204.
C21_SavingsPerAgent ==
    \A cls \in SavingsClasses :
        (CompletedFor(cls) /\ ~query_engine.fails) =>
            IF query_engine.missing # {} \/ SavingsTableRows = {}
              THEN sink = << >> /\ CallsWith("handle", "ok") # << >> /\ response.status = 204
              ELSE /\ \A a \in Agents :
                        IF cls = "SavingsEvaluationHandler"
                          THEN /\ OneAgentPoint(cls, "claims/pipeline/savings/vl_glosa_arvo", a,
                                       float(SumField(RowsOf(a), "vl_glosa_arvo")))
                               /\ OneAgentPoint(cls, "claims/pipeline/savings/count", a,
                                       float(Cardinality(RowsOf(a))))
                          ELSE OneAgentPoint(cls, "claims/glosa/approved/vl_glosa_arvo", a,
                                       float(SumField(RowsOf(a), "vl_glosa_arvo")))
                   /\ Len(sink) = Cardinality(Agents) *
                                    (IF cls = "SavingsEvaluationHandler" THEN 2 ELSE 1)

\* A savings table with rows of two agents: an amount and a count for each.
C21_Witness ==
    /\ CompletedFor("SavingsEvaluationHandler") /\ AllTablesExist
    /\ Cardinality(Agents) = 2
    /\ Len(sink) = 4

\* ---- phases of one dispatch (src/dispatcher.py)
\* The phase an entry of the invocation log belongs to: 1 matching, 2 executing,
\* 3 the matcher-failure gauges, 4 the execution-failure gauges.
PhaseOf(c) ==
    CASE c.op = "match" -> 1
      [] c.op \in {"handle", "create_time_series"} -> 2
      [] c.op = "handler_matcher_failure" -> 3
      [] OTHER -> 4

\* C25: within one dispatch every match call precedes the first handle call,
\* every handle call precedes the first failure gauge, the matcher-failure
\* gauges precede the execution-failure gauges, and the response is produced
\* only after all of them: after the decoder, every registered handler was
\* matched, every matched handler handled and every recorded failure reported.
C25_PhaseOrder ==
    /\ calls # << >> => decoded_message.kind = "value"
    /\ \A i, j \in 1..Len(calls) : i < j => PhaseOf(calls[i]) <= PhaseOf(calls[j])
    /\ CallsOf("handle") # << >> => Len(CallsOf("match")) = Len(handlers)
    /\ (\E k \in 1..Len(calls) : calls[k].op \in GaugeNames) =>
           /\ Len(CallsOf("match")) = Len(handlers)
           /\ Len(CallsOf("handle")) = Len(matched_handlers)
    /\ CallsOf("handler_execution_failure") # << >> =>
           Len(CallsOf("handler_matcher_failure")) = Len(matcher_errors)
    /\ response # NoResponse =>
           /\ pc = "done"
           /\ decoded_message.kind = "value" =>
                /\ Len(CallsOf("match")) = Len(handlers)
                /\ Len(CallsOf("handle")) = Len(matched_handlers)
                /\ Len(CallsWith("handler_matcher_failure", "ok")) = Len(matcher_errors)
                /\ Len(CallsWith("handler_execution_failure", "ok")) = Len(handler_errors)

\* A dispatch that went through every phase: a match that raised, a handle that
\* failed, both gauges and the response.
C25_Witness ==
    /\ pc = "done" /\ response.status = 500
    /\ CallsOf("handle") # << >>
    /\ CallsOf("handler_matcher_failure") # << >>
    /\ CallsOf("handler_execution_failure") # << >>

\* ---- match of the concrete handlers (src/handlers/*.py)
\* C27: on every message the decoder accepts, the match of every concrete
\* handler returns true or false: no match call raises, so no matcher failure
\* is recorded and no 500 follows from the shape of the message.
C27_MatchNeverRaises ==
    /\ \A k \in 1..Len(calls) : calls[k].op = "match" => calls[k].outcome \in {"true", "false"}
    /\ matcher_errors = << >>

\* The categories the sink holds a point for, and the categories of the rows of
\* a result.
SinkCategories == { CategoryOf(sink[k]) : k \in 1..Len(sink) }
CategoriesOf(rows) ==
    { (CHOOSE l \in rows[i].labels : l[1] = "category")[2] : i \in 1..Len(rows) }

\* C29: the categories claims/beneficiaries/new_pct_3mo is emitted for depend on
\* the batch rows alone: they are the categories of the path with historical
\* tables and the categories of the fallback path, which are the same.
C29_SameCategories ==
    (CompletedFor("NewBeneficiariesApprovalHandler") /\ ~query_engine.fails) =>
        /\ SinkCategories = CategoriesOf(NewBeneficiariesResult(query_engine, TRUE))
        /\ SinkCategories = CategoriesOf(NewBeneficiariesResult(query_engine, FALSE))

FailingHandlers ==
    { i \in 1..Len(handlers) :
        LET r == match(handlers[i], cloud_event.body)
        IN  \/ r = "raise"
            \/ /\ r = "true"
               /\ handle(handlers[i], cloud_event.body, query_engine, NoFault).result # "ok" }

\* C28: on the same handler list and the same outcomes of match and handle the
\* simple dispatcher returns the status of the accumulating dispatcher, and for
\* 400 the same body, whenever at most one handler fails.
C28_SameResponse ==
    (pc = "done" /\ Cardinality(FailingHandlers) <= 1) =>
        LET acc == AccumulatingResponse(handlers, cloud_event.body, query_engine)
        IN  /\ response.status = acc.status
            /\ response.status = 400 => response.body = acc.body

\* Two handlers, the second of which fails with a bad request after the first
\* has succeeded.
C28_Witness ==
    /\ pc = "done" /\ Len(handlers) = 2
    /\ FailingHandlers = {2}
    /\ Len(CallsOf("handle")) = 2
    /\ response.status = 400

\* What the sink did to the point of handler i in the call t, as the call's log
\* records it.
FaultOf(t, i) ==
    LET K == { k \in 1..Len(t.calls) :
                 t.calls[k].op = "create_time_series" /\ t.calls[k].handler = i }
    IN  IF K = {} THEN NoFault ELSE SinkFault(1, t.calls[CHOOSE k \in K : TRUE].outcome)

\* The handle calls of a dispatch that runs alone, the errors they leave and
\* the answers of the sink being those of t.
RECURSIVE AloneExecute(_, _, _, _, _, _, _)
AloneExecute(hs, m, qe, t, mh, k, acc) ==
    IF k > Len(mh) THEN acc
    ELSE LET i == mh[k]
             f == FaultOf(t, i)
             out == handle(hs[i], m, qe, f)
         IN  AloneExecute(hs, m, qe, t, mh, k + 1,
               [he |-> HandlerErrorsAfter(acc.he, hs[i], out),
                calls |-> acc.calls
                          \o (IF f = NoFault THEN << >>
                              ELSE << Call("create_time_series", i, hs[i].cls, f.exc, NoText) >>)
                          \o << Call("handle", i, hs[i].cls, out.result, out.message) >>])

GaugeCalls(name, errors) ==
    [k \in 1..Len(errors) |-> Call(name, 0, errors[k].handler_class, "ok", NoText)]

\* The invocations and the response of a dispatch of message m that runs alone
\* on handler list hs, the sink answering as it answered t.
Alone(hs, m, qe, t) ==
    LET a == AccumulateMatch(hs, m, 1, [me |-> << >>, mh |-> << >>])
        x == AloneExecute(hs, m, qe, t, a.mh, 1, [he |-> << >>, calls |-> << >>])
    IN  [calls |-> [i \in 1..Len(hs) |-> Call("match", i, hs[i].cls, match(hs[i], m), NoText)]
                   \o x.calls
                   \o GaugeCalls("handler_matcher_failure", a.me)
                   \o GaugeCalls("handler_execution_failure", x.he),
         response |-> DetermineResponse(a.me, x.he, a.mh)]

\* The sink raised at a gauge of the dispatcher.
GaugeRaised(c) == c.op \in GaugeNames /\ c.outcome = "raise"
Accepted(c) == IF GaugeRaised(c) THEN [c EXCEPT !.outcome = "ok"] ELSE c

\* The call t has so far done what it would have done alone.
RunsAsAlone(hs, qe, t) ==
    LET d == decode_message(t.cloud_event)
        n == Len(t.calls)
        e == Alone(hs, d.value, qe, t)
    IN  IF t.pc = "start" THEN t = Entered(t.cloud_event)
        ELSE /\ d.kind = "value"
             /\ t.decoded_message = d
             /\ IsPrefix([k \in 1..n |-> Accepted(t.calls[k])], e.calls)
             /\ \A k \in 1..n : GaugeRaised(t.calls[k]) => k = n /\ t.pc = "raised"
             /\ t.pc = "raised" =>
                  /\ n > 0 /\ GaugeRaised(t.calls[n])
                  /\ t.escaped = "sink unavailable"
             /\ t.pc = "done" =>
                  /\ n = Len(e.calls)
                  /\ t.response = e.response
                  /\ (\A i \in 1..Len(hs) : FaultOf(t, i) = NoFault) =>
                        t.response = AccumulatingResponse(hs, d.value, qe)
             /\ t.pc # "done" => t.response = NoResponse

\* The points the call t has emitted: those of its handle calls and its gauges.
RECURSIVE Emitted(_, _, _, _)
Emitted(hs, qe, t, k) ==
    IF k > Len(t.calls) THEN << >>
    ELSE LET c == t.calls[k]
             ps == IF c.op = "handle"
                     THEN handle(hs[c.handler], t.decoded_message.value, qe,
                                 FaultOf(t, c.handler)).points
                   ELSE IF c.op \in GaugeNames /\ c.outcome = "ok"
                     THEN << FailureGauge(c.op, c.cls, t.timestamp) >>
                   ELSE << >>
         IN  ps \o Emitted(hs, qe, t, k + 1)

\* How many times x occurs in s.
Occurrences(s, x) == Cardinality({ k \in 1..Len(s) : s[k] = x })

\* C22: two dispatch calls that run concurrently on one HandlerDispatcher do
\* not interact: each makes the handler invocations and returns the response it
\* would make and return alone, and the sink receives the points of the one and
\* the points of the other, nothing more and nothing less.
C22_ConcurrentDispatches ==
    /\ RunsAsAlone(handlers, query_engine, Running)
    /\ RunsAsAlone(handlers, query_engine, parked)
    /\ LET mine == Emitted(handlers, query_engine, Running, 1)
           theirs == Emitted(handlers, query_engine, parked, 1)
       IN  /\ Len(sink) = Len(mine) + Len(theirs)
           /\ \A k \in 1..Len(sink) :
                Occurrences(sink, sink[k])
                  = Occurrences(mine, sink[k]) + Occurrences(theirs, sink[k])

\* Two calls with different events on two handlers that both accept, both
\* ended with 204, their handle calls having alternated.
C22_Witness ==
    /\ pc = "done" /\ parked.pc = "done"
    /\ cloud_event # parked.cloud_event
    /\ response.status = 204 /\ parked.response.status = 204
    /\ Len(sink) = 4
    /\ sink[1].timestamp = sink[3].timestamp
    /\ sink[2].timestamp = sink[4].timestamp
    /\ sink[1].timestamp # sink[2].timestamp

\* C24: for every message P with payload and source_timestamp, decode_message
\* applied to the envelope whose message.data is base64(utf8(json(P))) returns
\* a value equal to P.
C24_DecodeRoundTrip ==
    \A r \in RoundTrips :
        (cloud_event = r.event /\ pc # "start") => decoded_message = Value(r.message)

\* A message whose payload holds a character of two UTF-8 bytes, written
\* unescaped, in a base64 text that ends with padding, decoded and answered.
C24_Witness ==
    LET j == JObj(<< Entry(PayloadKey, JStr(<< 233 >>)),
                     Entry(SourceTimestampKey, JStr(IsoText)) >>)
    IN  /\ pc = "done"
        /\ cloud_event = TextEnvelope(Encoded(j, FALSE))
        /\ cloud_event.data[Len(cloud_event.data)] = 61
        /\ decoded_message = Value(j)
        /\ response.status = 204

====
